---------------------------- MODULE Spec2Model ----------------------------
(***************************************************************************)
(* Model of the configuration resolver of the CDK app                      *)
(* (config/app-config-reader.ts, concatenated into src/cdk/app/bin/app.ts) *)
(* loadAppConfig(context) reads the CDK context, the file                  *)
(* config/app-config.json and process.env and returns a ResolvedAppConfig  *)
(* or throws.                                                              *)
(*                                                                         *)
(* JavaScript values are tagged records of one shape, so that any two of   *)
(* them can be compared: t is the type tag, s the characters of a string,  *)
(* n the integer of a number, o the own properties of an object or array.  *)
(* A string is the sequence of its characters, so that Number(), truth and *)
(* Object.keys work on what the string contains.                           *)
(***************************************************************************)
EXTENDS Integers, Sequences, FiniteSets, TLC

----------------------------------------------------------------------------
(* JavaScript values *)

NoProps == [k \in {} |-> 0]

JsVal(t, s, n, o) == [t |-> t, s |-> s, n |-> n, o |-> o]

Undefined == JsVal("undefined", <<>>, 0, NoProps)
Null      == JsVal("null", <<>>, 0, NoProps)
JsTrue    == JsVal("true", <<>>, 0, NoProps)
JsFalse   == JsVal("false", <<>>, 0, NoProps)
NaN       == JsVal("nan", <<>>, 0, NoProps)
Num(n)    == JsVal("num", <<>>, n, NoProps)
Str(s)    == JsVal("str", s, 0, NoProps)
Obj(o)    == JsVal("obj", <<>>, 0, o)
Arr(o)    == JsVal("arr", <<>>, 0, o)
EmptyObject == Obj(NoProps)

JsBool(b) == IF b THEN JsTrue ELSE JsFalse

\* x == null || x === undefined, the test made by the ?? operator
IsNullish(v) == v.t \in {"undefined", "null"}

\* ToBoolean: the test made by !x, x && y, x || y
Truthy(v) ==
  CASE v.t \in {"undefined", "null", "false", "nan"} -> FALSE
    [] v.t = "num" -> v.n # 0
    [] v.t = "str" -> Len(v.s) > 0
    [] OTHER -> TRUE

\* a ?? b
Coalesce(a, b) == IF IsNullish(a) THEN b ELSE a

\* a || b
OrElse(a, b) == IF Truthy(a) THEN a ELSE b

\* typeof v
Typeof(v) ==
  CASE v.t \in {"obj", "arr", "null"} -> "object"
    [] v.t = "str" -> "string"
    [] v.t \in {"num", "nan"} -> "number"
    [] v.t \in {"true", "false"} -> "boolean"
    [] OTHER -> "undefined"

\* property names of the characters of a string primitive: "0", "1", ...
IdxKeys == <<"0", "1", "2", "3">>

IdxOf(k) == IF \E i \in 1..Len(IdxKeys) : IdxKeys[i] = k
            THEN CHOOSE i \in 1..Len(IdxKeys) : IdxKeys[i] = k
            ELSE 0

\* v.k or v[k] for a v that is neither null nor undefined (reading a
\* property of null or undefined throws a TypeError: see CanReadProps)
Get(v, k) ==
  CASE v.t \in {"obj", "arr"} -> IF k \in DOMAIN v.o THEN v.o[k] ELSE Undefined
    [] v.t = "str" -> IF IdxOf(k) \in 1..Len(v.s)
                      THEN Str(<<v.s[IdxOf(k)]>>) ELSE Undefined
    [] OTHER -> Undefined

CanReadProps(v) == ~IsNullish(v)

\* Object.keys(v) for a v that is neither null nor undefined
ObjectKeys(v) ==
  CASE v.t \in {"obj", "arr"} -> DOMAIN v.o
    [] v.t = "str" -> {IdxKeys[i] : i \in 1..Len(v.s)}
    [] OTHER -> {}

Digits == <<"0", "1", "2", "3", "4", "5", "6", "7", "8", "9">>

IsDigit(c) == \E i \in 1..10 : Digits[i] = c

DigitVal(c) == (CHOOSE i \in 1..10 : Digits[i] = c) - 1

IsSpace(c) == c \in {" ", "\t", "\n"}

RECURSIVE TrimLeft(_)
TrimLeft(s) == IF Len(s) > 0 /\ IsSpace(Head(s)) THEN TrimLeft(Tail(s)) ELSE s

RECURSIVE TrimRight(_)
TrimRight(s) == IF Len(s) > 0 /\ IsSpace(s[Len(s)])
                THEN TrimRight(SubSeq(s, 1, Len(s) - 1)) ELSE s

RECURSIVE DecimalValue(_)
DecimalValue(s) == IF Len(s) = 0 THEN 0
                   ELSE 10 * DecimalValue(SubSeq(s, 1, Len(s) - 1))
                        + DigitVal(s[Len(s)])

\* Number(string): StringToNumber on unsigned decimal integer literals;
\* blank text is 0 and any other text is NaN
StringToNumber(s) ==
  LET t == TrimRight(TrimLeft(s)) IN
    IF Len(t) = 0 THEN Num(0)
    ELSE IF \A i \in 1..Len(t) : IsDigit(t[i]) THEN Num(DecimalValue(t))
    ELSE NaN

\* Number(v)
ToNumber(v) ==
  CASE v.t = "num" -> v
    [] v.t = "nan" -> NaN
    [] v.t = "undefined" -> NaN
    [] v.t = "null" -> Num(0)
    [] v.t = "true" -> Num(1)
    [] v.t = "false" -> Num(0)
    [] v.t = "str" -> StringToNumber(v.s)
    [] v.t = "arr" -> IF DOMAIN v.o = {} THEN Num(0)
                      ELSE IF DOMAIN v.o = {"0"} /\ v.o["0"].t \in {"num", "str"}
                           THEN (IF v.o["0"].t = "num" THEN v.o["0"]
                                 ELSE StringToNumber(v.o["0"].s))
                      ELSE NaN
    [] OTHER -> NaN

----------------------------------------------------------------------------
(* The resolver: config/app-config-reader.ts *)

ScalarFields == {"account", "region", "serviceName", "domainName",
                 "hostedZoneId", "appPortNum", "terminationWaitTimeMinutes"}

RequiredFields == <<"account", "region", "serviceName", "domainName">>

RequiredSet == {RequiredFields[i] : i \in 1..Len(RequiredFields)}

StringFields == RequiredSet \cup {"hostedZoneId"}

NumericFields == {"appPortNum", "terminationWaitTimeMinutes"}

\* the environment variable read for each scalar field
EnvVarOf ==
  [f \in ScalarFields |->
     CASE f = "account" -> "CDK_DEFAULT_ACCOUNT"
       [] f = "region" -> "CDK_DEFAULT_REGION"
       [] f = "serviceName" -> "CDK_SERVICE_NAME"
       [] f = "domainName" -> "CDK_DOMAIN_NAME"
       [] f = "hostedZoneId" -> "CDK_HOSTED_ZONE_ID"
       [] f = "appPortNum" -> "CDK_APP_PORT_NUM"
       [] OTHER -> "CDK_TERMINATION_WAIT_TIME_MINUTES"]

EnvVars == {EnvVarOf[f] : f \in ScalarFields}

DefaultAppPortNum == 3000
DefaultTerminationWaitTimeMinutes == 5

NoError == [name |-> "none", var |-> "", text |-> ""]

\* new Error('<VAR> is required (via context, config file, or env)')
RequiredError(var) ==
  [name |-> "Error", var |-> var,
   text |-> " is required (via context, config file, or env)"]

\* the TypeError of reading a property of null or undefined
PropertyTypeError ==
  [name |-> "TypeError", var |-> "",
   text |-> "Cannot read properties of null"]

\* an error of the file read or of the parse, were it to leave the catch block
FileError == [name |-> "FileError", var |-> "", text |-> ""]

\* the test that selects the CDK context as base configuration
UsesContext(context) ==
  /\ Truthy(context)
  /\ Truthy(Get(context, "myAppConfig"))
  /\ Typeof(Get(context, "myAppConfig")) = "object"

\* fs.readFileSync(cfgFile, 'utf-8'): the text, or the code of the error thrown
ReadFileSync(file) ==
  CASE file.kind = "absent" -> [threw |-> TRUE, code |-> "ENOENT"]
    [] file.kind = "unreadable" -> [threw |-> TRUE, code |-> "EACCES"]
    [] OTHER -> [threw |-> FALSE, code |-> ""]

\* JSON.parse(raw): the value, or a SyntaxError (which has no code)
JsonParse(file) ==
  IF file.kind = "json"
  THEN [threw |-> FALSE, code |-> "", value |-> file.doc]
  ELSE [threw |-> TRUE, code |-> "undefined", value |-> Undefined]

\* CatchFileError that throws on what is not ENOENT
CatchFileError_Rethrow(code) ==
  [rethrow |-> code # "ENOENT",
   log |-> IF code # "ENOENT" THEN <<"error: Error reading">>
           ELSE <<"log: No config file">>]

\* catch (e) { if (e.code !== 'ENOENT') console.error(...) else console.log(...) }
\* rethrow is TRUE when the exception leaves the catch block
CatchFileError(code) ==
  [rethrow |-> FALSE,
   log |-> IF code # "ENOENT" THEN <<"error: Error reading">>
           ELSE <<"log: No config file">>]

\* the else branch: try { read; parse; assign; log } catch (e) { ... }
\* baseConfig keeps its initial {} when the read or the parse throws
LoadFromFile(file) ==
  LET rd == ReadFileSync(file)
      pr == JsonParse(file)
  IN  IF rd.threw
      THEN [base |-> EmptyObject, threw |-> CatchFileError(rd.code).rethrow,
            log |-> CatchFileError(rd.code).log]
      ELSE IF pr.threw
      THEN [base |-> EmptyObject, threw |-> CatchFileError(pr.code).rethrow,
            log |-> CatchFileError(pr.code).log]
      ELSE [base |-> pr.value, threw |-> FALSE,
            log |-> <<"log: Loaded configuration">>]

\* SelectBase with the file tried first and the context used as fallback
SelectBase_FileFirst(context, file) ==
  LET ld == LoadFromFile(file)
  IN  IF file.kind = "json" \/ ~UsesContext(context)
      THEN [base |-> ld.base, threw |-> ld.threw, fileReads |-> 1,
            log |-> ld.log]
      ELSE [base |-> Get(context, "myAppConfig"), threw |-> FALSE,
            fileReads |-> 1,
            log |-> <<"log: Using configuration from CDK context">>]

\* baseConfig after the if/else that picks the context or the file
SelectBase(context, file) ==
  IF UsesContext(context)
  THEN [base |-> Get(context, "myAppConfig"), threw |-> FALSE, fileReads |-> 0,
        log |-> <<"log: Using configuration from CDK context">>]
  ELSE LET ld == LoadFromFile(file)
       IN  [base |-> ld.base, threw |-> ld.threw, fileReads |-> 1,
            log |-> ld.log]

\* ResolveRequired with the operands of ?? swapped
ResolveRequired_EnvFirst(base, env, f) ==
  Coalesce(env[EnvVarOf[f]], Get(base, f))

\* baseConfig.<field> ?? process.env.<VAR>
ResolveRequired(base, env, f) == Coalesce(Get(base, f), env[EnvVarOf[f]])

\* ResolveHostedZoneId that reads the environment only when the base
\* configuration has no entry at all
ResolveHostedZoneId_WholeSource(base, env) ==
  IF ObjectKeys(base) # {}
  THEN Coalesce(Get(base, "hostedZoneId"), Str(<<>>))
  ELSE Coalesce(env["CDK_HOSTED_ZONE_ID"], Str(<<>>))

\* baseConfig.hostedZoneId ?? process.env.CDK_HOSTED_ZONE_ID ?? ''
ResolveHostedZoneId(base, env) ==
  Coalesce(Coalesce(Get(base, "hostedZoneId"), env["CDK_HOSTED_ZONE_ID"]),
           Str(<<>>))

\* ResolveAppPortNum without the environment variable
ResolveAppPortNum_NoEnv(base, env) ==
  ToNumber(Coalesce(Get(base, "appPortNum"), Num(DefaultAppPortNum)))

\* Number(baseConfig.appPortNum ?? process.env.CDK_APP_PORT_NUM ?? 3000)
ResolveAppPortNum(base, env) ==
  ToNumber(Coalesce(Coalesce(Get(base, "appPortNum"), env["CDK_APP_PORT_NUM"]),
                    Num(DefaultAppPortNum)))

\* ResolveTerminationWaitTimeMinutes without the Number() conversion
ResolveTerminationWaitTimeMinutes_NoNumber(base, env) ==
  Coalesce(Coalesce(Get(base, "terminationWaitTimeMinutes"),
                    env["CDK_TERMINATION_WAIT_TIME_MINUTES"]),
           Num(DefaultTerminationWaitTimeMinutes))

\* ResolveTerminationWaitTimeMinutes without the final ?? 5
ResolveTerminationWaitTimeMinutes_NoDefault(base, env) ==
  ToNumber(Coalesce(Get(base, "terminationWaitTimeMinutes"),
                    env["CDK_TERMINATION_WAIT_TIME_MINUTES"]))

\* Number(baseConfig.terminationWaitTimeMinutes
\*        ?? process.env.CDK_TERMINATION_WAIT_TIME_MINUTES ?? 5)
ResolveTerminationWaitTimeMinutes(base, env) ==
  ToNumber(Coalesce(Coalesce(Get(base, "terminationWaitTimeMinutes"),
                             env["CDK_TERMINATION_WAIT_TIME_MINUTES"]),
                    Num(DefaultTerminationWaitTimeMinutes)))

\* baseConfig.wantGrafana === false
ResolveWantGrafana(base) == JsBool(Get(base, "wantGrafana") = JsFalse)

\* the environment variables the resolution lines read: the right operand
\* of ?? is evaluated only when the left one is null or undefined
EnvReadsOf(base) == {EnvVarOf[f] : f \in {g \in ScalarFields : IsNullish(Get(base, g))}}

\* FirstMissing without the check of domainName
FirstMissing_SkipsDomain(account, region, serviceName, domainName) ==
  IF ~Truthy(account) THEN "CDK_DEFAULT_ACCOUNT"
  ELSE IF ~Truthy(region) THEN "CDK_DEFAULT_REGION"
  ELSE IF ~Truthy(serviceName) THEN "CDK_SERVICE_NAME"
  ELSE ""

\* FirstMissing with the checks in the reverse order
FirstMissing_Reversed(account, region, serviceName, domainName) ==
  IF ~Truthy(domainName) THEN "CDK_DOMAIN_NAME"
  ELSE IF ~Truthy(serviceName) THEN "CDK_SERVICE_NAME"
  ELSE IF ~Truthy(region) THEN "CDK_DEFAULT_REGION"
  ELSE IF ~Truthy(account) THEN "CDK_DEFAULT_ACCOUNT"
  ELSE ""

\* the four fail-fast checks: the variable named by the first failing one,
\* or "" when all four values are truthy
FirstMissing(account, region, serviceName, domainName) ==
  IF ~Truthy(account) THEN "CDK_DEFAULT_ACCOUNT"
  ELSE IF ~Truthy(region) THEN "CDK_DEFAULT_REGION"
  ELSE IF ~Truthy(serviceName) THEN "CDK_SERVICE_NAME"
  ELSE IF ~Truthy(domainName) THEN "CDK_DOMAIN_NAME"
  ELSE ""

EnvConfigFields == {"computePlatform", "stagingEnvironment", "imageSource",
                    "repositoryName", "imageTag", "healthCheckCommand",
                    "healthCheckPath", "s3BucketName", "bucketIsCdkManaged",
                    "subdomain"}

\* ExtractEnv that gives imageTag the value 'latest' when the entry has none
ExtractEnv_DefaultTag(base, key) ==
  LET raw == OrElse(Get(base, key), EmptyObject)
  IN  [f \in EnvConfigFields |->
         IF f = "imageTag"
         THEN Coalesce(Get(raw, f), Str(<<"l", "a", "t", "e", "s", "t">>))
         ELSE Get(raw, f)]

\* extractEnv(key): raw = baseConfig[key] || {}, then one property read per field
ExtractEnv(base, key) ==
  LET raw == OrElse(Get(base, key), EmptyObject)
  IN  [f \in EnvConfigFields |-> Get(raw, f)]

\* RESERVED without the name added last
RESERVED_NoGrafana ==
  {"account", "region", "serviceName", "domainName", "hostedZoneId",
   "appPortNum", "terminationWaitTimeMinutes"}

RESERVED == {"account", "region", "serviceName", "domainName", "hostedZoneId",
             "appPortNum", "terminationWaitTimeMinutes", "wantGrafana"}

\* the loop over Object.keys(baseConfig) that fills envConfigs
BuildEnvConfigs(base) ==
  [key \in {k \in ObjectKeys(base) : k \notin RESERVED} |-> ExtractEnv(base, key)]

NoResult == [kind |-> "none"]

\* the object literal returned at the end
MakeResult(base, env) ==
  [kind |-> "ResolvedAppConfig",
   account |-> ResolveRequired(base, env, "account"),
   region |-> ResolveRequired(base, env, "region"),
   serviceName |-> ResolveRequired(base, env, "serviceName"),
   domainName |-> ResolveRequired(base, env, "domainName"),
   hostedZoneId |-> ResolveHostedZoneId(base, env),
   appPortNum |-> ResolveAppPortNum(base, env),
   envConfigs |-> BuildEnvConfigs(base),
   terminationWaitTimeMinutes |-> ResolveTerminationWaitTimeMinutes(base, env),
   wantGrafana |-> ResolveWantGrafana(base)]

\* loadAppConfig(context) run against a file and an environment: how it
\* ends, what it returns or throws, and what it read and logged on the way
LoadAppConfigOutcome(context, file, env) ==
  LET sel == SelectBase(context, file)
      base == sel.base
      common == [base |-> base, fileReads |-> sel.fileReads, log |-> sel.log]
  IN  IF sel.threw
      THEN common @@ [status |-> "threw", value |-> NoResult,
                      error |-> FileError,
                      envReads |-> {}]
      ELSE IF ~CanReadProps(base)
      THEN common @@ [status |-> "threw", value |-> NoResult,
                      error |-> PropertyTypeError, envReads |-> {}]
      ELSE LET missing == FirstMissing(ResolveRequired(base, env, "account"),
                                       ResolveRequired(base, env, "region"),
                                       ResolveRequired(base, env, "serviceName"),
                                       ResolveRequired(base, env, "domainName"))
           IN  IF missing # ""
               THEN common @@ [status |-> "threw", value |-> NoResult,
                               error |-> RequiredError(missing),
                               envReads |-> EnvReadsOf(base)]
               ELSE common @@ [status |-> "returned",
                               value |-> MakeResult(base, env),
                               error |-> NoError,
                               envReads |-> EnvReadsOf(base)]

\* ContextAfter in which the default of hostedZoneId is written into the
\* configuration object in place (baseConfig.hostedZoneId ??= '')
ContextAfter_DefaultsWritten(context, file, env) ==
  IF UsesContext(context)
     /\ Get(context, "myAppConfig").t = "obj"
     /\ IsNullish(Get(Get(context, "myAppConfig"), "hostedZoneId"))
  THEN Obj([k \in DOMAIN context.o |->
              IF k = "myAppConfig"
              THEN Obj([hostedZoneId |-> Str(<<>>)] @@ context.o[k].o)
              ELSE context.o[k]])
  ELSE context

\* the object passed as context, as the call leaves it: the function reads
\* context.myAppConfig and properties of baseConfig and assigns to none
ContextAfter(context, file, env) == context

\* process.env as the call leaves it: the function only reads it
EnvAfter(context, file, env) == env

----------------------------------------------------------------------------
(* Inputs: contexts, config files and environments *)

\* the initial of each scalar field, second character of its sentinel values
Initial ==
  [f \in StringFields |->
     CASE f = "account" -> "a"
       [] f = "region" -> "r"
       [] f = "serviceName" -> "s"
       [] f = "domainName" -> "d"
       [] OTHER -> "z"]

\* the value a source ("c" context, "f" file) gives to a scalar field
Sentinel(src, f) ==
  IF f \in StringFields THEN Str(<<src, Initial[f]>>)
  ELSE IF f = "appPortNum" THEN Num(IF src = "c" THEN 4000 ELSE 8081)
  ELSE Num(IF src = "c" THEN 10 ELSE 7)

\* the value of each environment variable when it is set to its sentinel
EnvSentinel(f) ==
  IF f \in StringFields THEN <<"e", Initial[f]>>
  ELSE IF f = "appPortNum" THEN <<"8", "0", "8", "0">>
  ELSE <<"1", "2">>

\* a configuration object of one source that sets the scalar fields of S
DocOf(src, S) == Obj([f \in S |-> Sentinel(src, f)])

\* obj with the properties of props added or replaced
With(obj, props) == Obj(props @@ obj.o)

FieldSets ==
  {{}} \cup {{f} : f \in ScalarFields}
       \cup {RequiredSet \ {f} : f \in RequiredSet}
       \cup {RequiredSet, StringFields, ScalarFields}

\* string literals of the source
Dev == Str(<<"d", "e", "v">>)
Release == Str(<<"r", "e", "l", "e", "a", "s", "e">>)
Ecs == Str(<<"e", "c", "s">>)
Kubernetes == Str(<<"k", "u", "b", "e", "r", "n", "e", "t", "e", "s">>)
EcrSource == Str(<<"e", "c", "r">>)
Dockerhub == Str(<<"d", "o", "c", "k", "e", "r", "h", "u", "b">>)
Latest == Str(<<"l", "a", "t", "e", "s", "t">>)

DevEntry ==
  Obj([computePlatform |-> Str(<<"e", "c", "s">>),
       stagingEnvironment |-> Str(<<"d", "e", "v">>),
       imageSource |-> Dockerhub,
       repositoryName |-> Str(<<"r", "d">>),
       imageTag |-> Str(<<"v", "1">>)])

ReleaseEntry ==
  Obj([computePlatform |-> Str(<<"e", "c", "s">>),
       stagingEnvironment |-> Release,
       imageSource |-> Str(<<"e", "c", "r">>),
       repositoryName |-> Str(<<"r", "p">>),
       imageTag |-> Str(<<"v", "2">>),
       healthCheckCommand |-> Arr([k \in {"0"} |-> Str(<<"C", "M", "D">>)]),
       healthCheckPath |-> Str(<<"/", "h">>),
       s3BucketName |-> Str(<<"b", "k">>),
       bucketIsCdkManaged |-> JsFalse,
       subdomain |-> Str(<<"a", "p", "i">>)])

\* configuration objects with environment entries, with empty, null or
\* wrongly typed scalars
SpecialDocs(src) ==
  { With(DocOf(src, ScalarFields),
         [wantGrafana |-> JsTrue, dev |-> DevEntry, release |-> ReleaseEntry]),
    With(DocOf(src, RequiredSet), [wantGrafana |-> JsFalse, dev |-> DevEntry]),
    With(DocOf(src, RequiredSet),
         [dev |-> Null, release |-> Str(<<"x">>), k8s |-> EmptyObject]),
    With(DocOf(src, RequiredSet), [account |-> Str(<<>>)]),
    With(DocOf(src, RequiredSet), [account |-> Null]),
    With(DocOf(src, RequiredSet), [domainName |-> Num(0)]),
    With(DocOf(src, RequiredSet), [account |-> Num(123)]),
    With(DocOf(src, ScalarFields),
         [appPortNum |-> Str(<<"9", "0">>),
          terminationWaitTimeMinutes |-> Str(<<"s", "o", "o", "n">>)]) }

\* JSON texts that parse to something other than an object
NonObjectDocs ==
  {Null, Str(<<"a", "b">>), Num(42), JsTrue, Arr(NoProps),
   Arr([k \in {"0"} |-> DevEntry])}

File(kind, doc) == [kind |-> kind, doc |-> doc]

AbsentFile == File("absent", Undefined)

\* the states of config/app-config.json
Files ==
  {AbsentFile, File("unreadable", Undefined), File("malformed", Undefined)}
  \cup {File("json", d) : d \in {DocOf("f", S) : S \in FieldSets}
                               \cup SpecialDocs("f") \cup NonObjectDocs}

\* the arguments loadAppConfig is called with
Contexts ==
  {Undefined, Null, EmptyObject, Str(<<"c", "x">>),
   Obj([myAppConfig |-> EmptyObject]),
   Obj([myAppConfig |-> Str(<<"c", "x">>)]),
   Obj([myAppConfig |-> Null]),
   DocOf("c", ScalarFields)}
  \cup {Obj([myAppConfig |-> d]) :
          d \in {DocOf("c", S) : S \in {{"account"}, {"region", "appPortNum"},
                                       RequiredSet \ {"region"}, RequiredSet,
                                       StringFields, ScalarFields}}
                \cup SpecialDocs("c")}

\* the strings each environment variable can be set to
EnvValues(f) ==
  CASE f \in {"account", "domainName"} -> {<<>>, EnvSentinel(f)}
    [] f = "appPortNum" -> {<<>>, EnvSentinel(f), <<"a", "b", "c">>}
    [] OTHER -> {EnvSentinel(f)}

EmptyEnv == [v \in EnvVars |-> Undefined]

----------------------------------------------------------------------------
(* Container image and health checks: config/image-config.ts *)

\* String(v) as a template literal inserts it
RECURSIVE NumberToString(_)
NumberToString(n) ==
  IF n < 0 THEN <<"-">> \o NumberToString(0 - n)
  ELSE IF n < 10 THEN <<Digits[n + 1]>>
  ELSE NumberToString(n \div 10) \o <<Digits[(n % 10) + 1]>>

JsString(v) ==
  CASE v.t = "str" -> v.s
    [] v.t = "num" -> NumberToString(v.n)
    [] v.t = "nan" -> <<"NaN">>
    [] v.t = "obj" -> <<"[object Object]">>
    [] v.t = "arr" -> <<"[array]">>
    [] OTHER -> <<v.t>>

\* rec.f of a literal object: undefined for a property it does not have
Field(rec, f) == IF f \in DOMAIN rec THEN rec[f] ELSE Undefined

TIMEOUT == 5
INTERVAL == 7
START_PERIOD_SHORT == 60
START_PERIOD_LONG == 300
ContainerHealthCheckRetries == 2
TargetGroupHealthyThresholdCount == 5

\* new ImageConfig(...): the tag parameter defaults to 'latest' when the
\* argument is undefined
ImageConfig(imageSource, repositoryName, tag, appPortNum, healthCheckCommandOverride, healthCheckPathOverride) ==
  [imageSource |-> imageSource,
   repositoryName |-> repositoryName,
   tag |-> IF tag = Undefined THEN Latest ELSE tag,
   appPortNum |-> appPortNum,
   healthCheckCommandOverride |-> healthCheckCommandOverride,
   healthCheckPathOverride |-> healthCheckPathOverride]

\* GetHealthChecks whose default command probes '/api/hello' whatever the
\* path override
GetHealthChecks_FixedProbePath(ic) ==
  LET HEALTH_CHECK_PATH ==
        Coalesce(ic.healthCheckPathOverride, Str(<<"/api/hello">>))
      defaultCommand ==
        Arr([k \in {"0", "1"} |->
               IF k = "0" THEN Str(<<"CMD-SHELL">>)
               ELSE Str(<<"wget --quiet --tries=1 --spider", " ",
                          "http://localhost:">>
                          \o JsString(ic.appPortNum)
                          \o <<"/api/hello", " || exit 1">>)])
  IN  [containerHealthCheckCommand |->
         Coalesce(ic.healthCheckCommandOverride, defaultCommand),
       containerHealthCheckRetries |-> ContainerHealthCheckRetries,
       containerHealthCheckStartPeriod |->
         IF ic.imageSource = EcrSource THEN START_PERIOD_LONG
         ELSE START_PERIOD_SHORT,
       containerHealthCheckTimeout |-> TIMEOUT,
       containerHealthCheckInterval |-> INTERVAL,
       targetGroupHealthCheckPath |-> HEALTH_CHECK_PATH,
       targetGroupHealthCheckTimeout |-> TIMEOUT,
       targetGroupHealthCheckInterval |-> INTERVAL,
       targetGroupHealthyThresholdCount |-> TargetGroupHealthyThresholdCount]

\* ImageConfig.getHealthChecks()
GetHealthChecks(ic) ==
  LET HEALTH_CHECK_PATH ==
        Coalesce(ic.healthCheckPathOverride, Str(<<"/api/hello">>))
      commandOptions == <<"wget --quiet --tries=1 --spider">>
      defaultUrl == <<"http://localhost:">> \o JsString(ic.appPortNum)
                      \o JsString(HEALTH_CHECK_PATH)
      defaultCommand ==
        Arr([k \in {"0", "1"} |->
               IF k = "0" THEN Str(<<"CMD-SHELL">>)
               ELSE Str(commandOptions \o <<" ">> \o defaultUrl
                          \o <<" || exit 1">>)])
  IN  [containerHealthCheckCommand |->
         Coalesce(ic.healthCheckCommandOverride, defaultCommand),
       containerHealthCheckRetries |-> ContainerHealthCheckRetries,
       containerHealthCheckStartPeriod |->
         IF ic.imageSource = EcrSource THEN START_PERIOD_LONG
         ELSE START_PERIOD_SHORT,
       containerHealthCheckTimeout |-> TIMEOUT,
       containerHealthCheckInterval |-> INTERVAL,
       targetGroupHealthCheckPath |-> HEALTH_CHECK_PATH,
       targetGroupHealthCheckTimeout |-> TIMEOUT,
       targetGroupHealthCheckInterval |-> INTERVAL,
       targetGroupHealthyThresholdCount |-> TargetGroupHealthyThresholdCount]

\* ImageConfig.applyConfig(props)
ApplyConfig(ic, props) ==
  [props EXCEPT !.imageSource = ic.imageSource,
                !.repositoryName = ic.repositoryName,
                !.tag = ic.tag,
                !.appPortNum = ic.appPortNum,
                !.healthChecks = GetHealthChecks(ic)]

----------------------------------------------------------------------------
(* Container image: lib/constructs/image-provisioner.ts *)

InvalidImageSourceError ==
  [name |-> "Error", var |-> "", text |-> "Invalid imageSource"]

\* ImageSourceValid that accepts every value
ImageSourceValid_Any(imageSource) == TRUE

\* the two branches of the constructor that do not throw
ImageSourceValid(imageSource) == imageSource \in {EcrSource, Dockerhub}

\* new ContainerImageProvisioner(scope, id, props)
ContainerImageProvisioner(props) ==
  IF ImageSourceValid(props.imageSource)
  THEN [threw |-> FALSE, error |-> NoError]
  ELSE [threw |-> TRUE, error |-> InvalidImageSourceError]

----------------------------------------------------------------------------
(* Grafana Alloy sidecar: lib/constructs/platform/ecs/grafana/grafana.ts *)

AlloyConfigError ==
  [name |-> "Error", var |-> "", text |-> "Failed to read Alloy config"]

\* new GrafanaAlloySidecarConstruct(scope, id, props), with the file
\* agent.river readable or not
GrafanaAlloySidecarConstruct(agentRiver) ==
  IF agentRiver = "readable"
  THEN [threw |-> FALSE, error |-> NoError]
  ELSE [threw |-> TRUE, error |-> AlloyConfigError]

----------------------------------------------------------------------------
(* Storage: lib/constructs/storage.ts *)

NoBucket == [kind |-> "none", bucketName |-> Undefined, removalPolicy |-> ""]

\* new StorageConstruct(scope, id, props): its dataBucket
StorageConstruct(props) ==
  IF ~Truthy(props.bucketName) THEN NoBucket
  ELSE IF props.createIfNecessary # JsFalse
  THEN [kind |-> "created", bucketName |-> props.bucketName,
        removalPolicy |-> "DESTROY"]
  ELSE [kind |-> "imported", bucketName |-> props.bucketName,
        removalPolicy |-> ""]

----------------------------------------------------------------------------
(* Fargate services: lib/constructs/platform/ecs/loadbalancer.ts *)

GrafanaVars == {"GRAFANA_REMOTE_WRITE_URL", "GRAFANA_USERNAME", "GRAFANA_API_KEY"}

GrafanaError ==
  [name |-> "Error", var |-> "",
   text |-> "[GrafanaAlloySidecar] wantGrafana=true, but one or more of GRAFANA_REMOTE_WRITE_URL / GRAFANA_USERNAME / GRAFANA_API_KEY is missing."]

NoFargate == [kind |-> "none"]

BlueMinCapacity == 1
BlueMaxCapacityDev == 2
BlueMaxCapacity == 10
TargetUtilizationPercent == 70
BlueDesiredCount == 1
GreenDesiredCount == 0
BlueWeight == 100
GreenWeight == 0

\* enableBlueGreenDeployment, true whatever the environment
EnableBlueGreenDeployment_Always(props) == TRUE

\* const enableBlueGreenDeployment = props.stagingEnvironment === 'release'
EnableBlueGreenDeployment(props) == props.stagingEnvironment = Release

\* the constructs of the blue service, with the sidecar when asked for
BlueConstructs(props) ==
  {"BlueTaskDefinition", "BlueService", "BlueTargetGroup", "BlueCpuScaling"}
    \cup (IF Truthy(props.wantGrafana) THEN {"BlueAlloySidecar"} ELSE {})

\* the constructs of the block if (enableBlueGreenDeployment) and the
\* deployment group
GreenConstructs(props) ==
  IF EnableBlueGreenDeployment(props)
  THEN {"DeployedGreenImageTag", "GreenAppContainerImage",
        "GreenTaskDefinition", "GreenService", "GreenTargetGroup",
        "DeploymentGroup"}
  ELSE {}

\* deploymentController.type of each service
DeploymentControllers(props) ==
  IF EnableBlueGreenDeployment(props)
  THEN [s \in {"BlueService", "GreenService"} |-> "CODE_DEPLOY"]
  ELSE [s \in {"BlueService"} |-> "ECS"]

\* desiredCount of each service
DesiredCounts(props) ==
  IF EnableBlueGreenDeployment(props)
  THEN [s \in {"BlueService", "GreenService"} |->
          IF s = "BlueService" THEN BlueDesiredCount ELSE GreenDesiredCount]
  ELSE [s \in {"BlueService"} |-> BlueDesiredCount]

\* autoScaleTaskCount and scaleOnCpuUtilization, per service they are
\* called on
AutoScaling(props) ==
  [s \in {"BlueService"} |->
     [minCapacity |-> BlueMinCapacity,
      maxCapacity |-> IF props.stagingEnvironment = Dev
                      THEN BlueMaxCapacityDev ELSE BlueMaxCapacity,
      targetUtilizationPercent |-> TargetUtilizationPercent]]

\* the DefaultActions override of the listener
DefaultActions(props) ==
  IF EnableBlueGreenDeployment(props)
  THEN [Type |-> "forward", TargetGroupArn |-> "",
        ForwardConfig |->
          <<[TargetGroupArn |-> "BlueTargetGroup", Weight |-> BlueWeight],
            [TargetGroupArn |-> "GreenTargetGroup", Weight |-> GreenWeight]>>]
  ELSE [Type |-> "forward", TargetGroupArn |-> "BlueTargetGroup",
        ForwardConfig |-> <<>>]

\* GrafanaMissing that looks at the remote-write URL alone
GrafanaMissing_UrlOnly(genv) == ~Truthy(genv["GRAFANA_REMOTE_WRITE_URL"])

\* !url || !user || !key
GrafanaMissing(genv) == \E v \in GrafanaVars : ~Truthy(genv[v])

\* new FargateServiceConstruct(scope, id, props), with process.env genv
\* and the file agent.river
FargateServiceConstruct(props, genv, agentRiver) ==
  IF Truthy(props.wantGrafana) /\ GrafanaMissing(genv)
  THEN [threw |-> TRUE, error |-> GrafanaError, value |-> NoFargate]
  ELSE IF Truthy(props.wantGrafana)
            /\ GrafanaAlloySidecarConstruct(agentRiver).threw
  THEN [threw |-> TRUE, error |-> GrafanaAlloySidecarConstruct(agentRiver).error,
        value |-> NoFargate]
  ELSE [threw |-> FALSE, error |-> NoError,
        value |->
          [kind |-> "FargateServiceConstruct",
           stagingEnvironment |-> props.stagingEnvironment,
           constructs |-> BlueConstructs(props) \cup GreenConstructs(props),
           deploymentController |-> DeploymentControllers(props),
           desiredCount |-> DesiredCounts(props),
           autoScaling |-> AutoScaling(props),
           defaultActions |-> DefaultActions(props),
           terminationWaitTime |->
             IF EnableBlueGreenDeployment(props)
             THEN Coalesce(props.terminationWaitTimeMinutes,
                           Num(DefaultTerminationWaitTimeMinutes))
             ELSE Undefined]]

----------------------------------------------------------------------------
(* The stack: lib/app-stack.ts *)

NoStack == [kind |-> "none"]

MaxAzsDev == 2
MaxAzs == 3
DefaultMaxNoncurrentVersions == 10
DefaultNoncurrentVersionExpirationDays == 1

\* the StorageConstructProps the stack passes on
StorageProps(props) ==
  IF Truthy(props.s3BucketName)
  THEN [bucketName |-> props.s3BucketName,
        createIfNecessary |-> Coalesce(props.s3BucketIsCdkManaged, JsTrue),
        maxNoncurrentVersions |->
          Coalesce(Field(props, "s3BucketMaxNoncurrentVersions"),
                   Num(DefaultMaxNoncurrentVersions)),
        noncurrentVersionExpirationDays |->
          Coalesce(Field(props, "s3BucketNoncurrentVersionExpirationDays"),
                   Num(DefaultNoncurrentVersionExpirationDays))]
  ELSE [bucketName |-> Undefined, createIfNecessary |-> Undefined,
        maxNoncurrentVersions |-> Undefined,
        noncurrentVersionExpirationDays |-> Undefined]

\* the environment variables of the application container
ContainerEnvironment(props, dataBucket) ==
  LET common == [k \in {"AWS_REGION", "SERVICE_NAME", "STAGE"} |->
                   CASE k = "AWS_REGION" -> props.env.region
                     [] k = "SERVICE_NAME" -> props.serviceName
                     [] OTHER -> props.stagingEnvironment]
  IN  IF dataBucket.kind # "none"
      THEN [k \in {"S3_DATA_BUCKET"} |-> dataBucket.bucketName] @@ common
      ELSE common

\* the constructs every stack has
CommonConstructs ==
  {"ApplicationWebAcl", "NetworkInfrastructure", "ApplicationStorage",
   "ApplicationIamRoles", "AppContainerImage", "HostedZone",
   "SslCertificateResource"}

\* the constructs of the branch if (props.computePlatform === 'ecs')
EcsConstructs ==
  {"ApplicationLoadBalancerSetup", "ApplicationEcsCluster",
   "ApplicationFargateServices", "ServiceDnsAliasRecords"}

\* StackOutputs in which AlbDnsName and ServiceUrl do not depend on the
\* compute platform
StackOutputs_AlbAlways(props, dataBucket) ==
  {"WebAclArn", "AlbDnsName", "ServiceUrl"}
    \cup (IF dataBucket.kind # "none" THEN {"S3BucketName"} ELSE {})
    \cup (IF props.computePlatform = Ecs
          THEN (IF EnableBlueGreenDeployment(props)
                THEN {"BlueFargateServiceName", "GreenFargateServiceName"}
                ELSE {"PrimaryFargateServiceName"})
          ELSE {})

\* the CfnOutputs of the stack
StackOutputs(props, dataBucket) ==
  {"WebAclArn"}
    \cup (IF dataBucket.kind # "none" THEN {"S3BucketName"} ELSE {})
    \cup (IF props.computePlatform = Ecs
          THEN {"AlbDnsName", "ServiceUrl"}
                 \cup (IF EnableBlueGreenDeployment(props)
                       THEN {"BlueFargateServiceName", "GreenFargateServiceName"}
                       ELSE {"PrimaryFargateServiceName"})
          ELSE {})

\* new AppStack(scope, id, props), with process.env genv and the file
\* agent.river
AppStack(id, props, genv, agentRiver) ==
  LET dataBucket == StorageConstruct(StorageProps(props))
      image == ContainerImageProvisioner(props)
      isEcs == props.computePlatform = Ecs
      fargate ==
        IF isEcs
        THEN FargateServiceConstruct(
               [serviceName |-> props.serviceName,
                stagingEnvironment |-> props.stagingEnvironment,
                healthChecks |-> props.healthChecks,
                environment |-> ContainerEnvironment(props, dataBucket),
                terminationWaitTimeMinutes |-> props.terminationWaitTimeMinutes,
                appPortNum |-> props.appPortNum,
                imageSource |-> props.imageSource,
                repositoryName |-> props.repositoryName,
                tag |-> props.tag,
                wantGrafana |-> props.wantGrafana], genv, agentRiver)
        ELSE [threw |-> FALSE, error |-> NoError, value |-> NoFargate]
  IN  IF image.threw
      THEN [threw |-> TRUE, error |-> image.error, value |-> NoStack]
      ELSE IF fargate.threw
      THEN [threw |-> TRUE, error |-> fargate.error, value |-> NoStack]
      ELSE [threw |-> FALSE, error |-> NoError,
            value |->
              [kind |-> "AppStack",
               id |-> id,
               props |-> props,
               maxAzs |-> IF props.stagingEnvironment = Dev
                          THEN MaxAzsDev ELSE MaxAzs,
               dataBucket |-> dataBucket,
               fqdn |-> JsString(props.hostnamePrefix) \o <<".">>
                          \o JsString(props.apexDomain),
               constructs |-> CommonConstructs
                                \cup (IF isEcs THEN EcsConstructs ELSE {}),
               containerEnvironment |->
                 IF isEcs THEN ContainerEnvironment(props, dataBucket)
                 ELSE NoProps,
               fargate |-> fargate.value,
               outputs |-> StackOutputs(props, dataBucket),
               log |-> IF isEcs \/ props.computePlatform = Kubernetes
                       THEN <<>> ELSE <<"Unknown computePlatform">>]]

----------------------------------------------------------------------------
(* The app: bin/app.ts *)

StackNames == {"dev", "release"}

NoConfigurationError(name) ==
  [name |-> "Error", var |-> name, text |-> "No configuration found for name"]

\* createStack(name) with the resolved configuration, process.env genv and
\* the file agent.river
CreateStack(name, resolvedAppConfig, genv, agentRiver) ==
  IF name \notin DOMAIN resolvedAppConfig.envConfigs
  THEN [threw |-> TRUE, error |-> NoConfigurationError(name), value |-> NoStack]
  ELSE
    LET envCfg == resolvedAppConfig.envConfigs[name]
        stackName == JsString(resolvedAppConfig.serviceName) \o <<"-">>
                       \o <<name>>
        imageConfig == ImageConfig(envCfg.imageSource, envCfg.repositoryName,
                                   envCfg.imageTag,
                                   resolvedAppConfig.appPortNum,
                                   envCfg.healthCheckCommand,
                                   envCfg.healthCheckPath)
        props ==
          [serviceName |-> resolvedAppConfig.serviceName,
           stagingEnvironment |-> envCfg.stagingEnvironment,
           computePlatform |-> envCfg.computePlatform,
           apexDomain |-> Field(resolvedAppConfig, "apexDomain"),
           hostedZoneId |-> resolvedAppConfig.hostedZoneId,
           hostnamePrefix |-> Field(envCfg, "hostnamePrefix"),
           s3BucketName |-> envCfg.s3BucketName,
           s3BucketIsCdkManaged |-> Field(envCfg, "s3BucketIsCdkManaged"),
           terminationWaitTimeMinutes |->
             resolvedAppConfig.terminationWaitTimeMinutes,
           appPortNum |-> resolvedAppConfig.appPortNum,
           env |-> [account |-> resolvedAppConfig.account,
                    region |-> resolvedAppConfig.region],
           wantGrafana |-> Coalesce(resolvedAppConfig.wantGrafana, JsFalse),
           imageSource |-> Undefined,
           repositoryName |-> Undefined,
           tag |-> Undefined,
           healthChecks |-> Undefined]
        applied == ApplyConfig(imageConfig, props)
    IN  AppStack(stackName, [applied EXCEPT !.tag = envCfg.imageTag], genv,
                 agentRiver)

\* the environment with every CDK_* variable set to its sentinel
FullEnv ==
  [v \in EnvVars |->
     Str(EnvSentinel(CHOOSE f \in ScalarFields : EnvVarOf[f] = v))]

\* base configurations the app is synthesized with
AppDocs(src) ==
  { With(DocOf(src, ScalarFields),
         [wantGrafana |-> JsTrue, dev |-> DevEntry, release |-> ReleaseEntry]),
    With(DocOf(src, RequiredSet),
         [wantGrafana |-> JsFalse, dev |-> DevEntry, release |-> ReleaseEntry]),
    With(DocOf(src, RequiredSet),
         [dev |-> DevEntry,
          release |-> With(ReleaseEntry, [bucketIsCdkManaged |-> JsTrue])]),
    With(DocOf(src, RequiredSet),
         [dev |-> With(DevEntry, [s3BucketName |-> Str(<<"d", "v">>)]),
          release |-> With(DevEntry, [stagingEnvironment |-> Release])]),
    With(DocOf(src, RequiredSet), [wantGrafana |-> JsFalse, dev |-> DevEntry]),
    With(DocOf(src, RequiredSet),
         [wantGrafana |-> JsFalse,
          dev |-> With(DevEntry, [computePlatform |-> Kubernetes]),
          release |-> ReleaseEntry]),
    With(DocOf(src, RequiredSet),
         [dev |-> Null,
          release |-> With(ReleaseEntry, [computePlatform |-> Kubernetes])]),
    With(DocOf(src, RequiredSet),
         [dev |-> With(DevEntry, [stagingEnvironment |-> Release]),
          release |-> With(ReleaseEntry,
                           [stagingEnvironment |-> Str(<<"p", "r", "o", "d">>)])]),
    With(DocOf(src, ScalarFields),
         [dev |-> With(DevEntry,
                       [imageSource |-> Dockerhub,
                        healthCheckPath |-> Str(<<"/", "u", "p">>)]),
          release |-> With(DevEntry,
                           [stagingEnvironment |-> Release,
                            imageSource |-> EcrSource,
                            healthCheckCommand |->
                              Arr([k \in {"0"} |-> Str(<<"C", "M", "D">>)])])]),
    With(DocOf(src, RequiredSet),
         [dev |-> Obj([computePlatform |-> Ecs, stagingEnvironment |-> Dev,
                       imageSource |-> Dockerhub,
                       repositoryName |-> Str(<<"r", "d">>)]),
          release |-> Obj([stagingEnvironment |-> Release,
                           imageSource |-> EcrSource,
                           repositoryName |-> Str(<<"r", "p">>),
                           imageTag |-> Str(<<"v", "2">>)])]),
    With(DocOf(src, RequiredSet),
         [dev |-> With(DevEntry, [computePlatform |-> Str(<<"e", "k", "s">>)]),
          release |-> ReleaseEntry]),
    DocOf(src, RequiredSet) }

AppFiles == {AbsentFile} \cup {File("json", d) : d \in AppDocs("f")}

AppEnvs == {EmptyEnv, FullEnv}

\* the CDK context of the app: cdk.json and the --context options
CdkContexts ==
  {EmptyObject,
   Obj([myAppConfig |->
          With(DocOf("c", RequiredSet),
               [wantGrafana |-> JsFalse, dev |-> DevEntry,
                release |-> ReleaseEntry])]),
   Obj([myAppConfig |->
          Obj([myAppConfig |->
                 With(DocOf("c", RequiredSet),
                      [dev |-> DevEntry, release |-> ReleaseEntry])])])}

NoGrafanaEnv == [v \in GrafanaVars |-> Undefined]

\* process.env restricted to the GRAFANA_* variables
GrafanaEnvs ==
  {NoGrafanaEnv,
   [v \in GrafanaVars |-> Str(<<"g">>)],
   [NoGrafanaEnv EXCEPT !["GRAFANA_REMOTE_WRITE_URL"] = Str(<<"g">>)],
   [v \in GrafanaVars |->
      IF v = "GRAFANA_API_KEY" THEN Str(<<>>) ELSE Str(<<"g">>)]}

NoStacks == [n \in StackNames |-> NoStack]

\* the inputs of a process that calls loadAppConfig several times
SeqContexts ==
  {Undefined, Obj([myAppConfig |-> DocOf("c", RequiredSet)]),
   Obj([myAppConfig |-> With(DocOf("c", RequiredSet), [dev |-> DevEntry])])}

SeqFiles ==
  {AbsentFile, File("malformed", Undefined),
   File("json", With(DocOf("f", ScalarFields), [dev |-> DevEntry]))}

MaxCalls == 3

----------------------------------------------------------------------------
(* The deployment trigger: code_deploy/trigger_blue_green.sh *)

\* jq -r '.list[0]' of a list of names: the text null for an empty list
JqFirst(list) == IF list = <<>> THEN "null" ELSE list[1]

\* [[ "$CLUSTER_ARN" == *"-release-"* ]], for the cluster names drawn
MatchesRelease(arn) == arn \in {"c-release-1", "c-release-2"}

\* [[ "$SVC_ARN" == *"-blue-svc"* ]], for the service names drawn
MatchesBlueSvc(arn) == arn \in {"s-release-blue-svc"}

\* the nested for loops with break 2: the first blue service of the first
\* release cluster that has one, or nothing
FindBlueService(clusters) ==
  LET hits == {i \in 1..Len(clusters) :
                 /\ MatchesRelease(clusters[i].arn)
                 /\ \E j \in 1..Len(clusters[i].services) :
                      MatchesBlueSvc(clusters[i].services[j])}
  IN  IF hits = {} THEN [cluster |-> "", service |-> ""]
      ELSE LET i == CHOOSE h \in hits : \A k \in hits : h <= k
               c == clusters[i]
               j == CHOOSE h \in 1..Len(c.services) :
                      /\ MatchesBlueSvc(c.services[h])
                      /\ \A k \in 1..(h - 1) : ~MatchesBlueSvc(c.services[k])
           IN  [cluster |-> c.arn, service |-> c.services[j]]

Cluster(arn, services) == [arn |-> arn, services |-> services]

\* the answers of the AWS account to the calls of the script
AwsAccounts ==
  [clusters : {<<>>,
               <<Cluster("c-dev-1", <<"s-dev-blue-svc">>)>>,
               <<Cluster("c-release-1", <<"s-release-green-svc">>)>>,
               <<Cluster("c-dev-1", <<"s-dev-blue-svc">>),
                 Cluster("c-release-1",
                         <<"s-release-green-svc", "s-release-blue-svc">>)>>},
   serviceDescribed : BOOLEAN,
   greenTaskDefinitions : {<<>>, <<"td-green:2", "td-green:1">>},
   containerPort : {"8080", "null"},
   applications : {<<>>, <<"app">>},
   deploymentGroups : {<<>>, <<"dg">>}]

NoAwsAccount ==
  [clusters |-> <<>>, serviceDescribed |-> FALSE,
   greenTaskDefinitions |-> <<>>, containerPort |-> "null",
   applications |-> <<>>, deploymentGroups |-> <<>>]

\* the script before its first lookup
ScriptStart ==
  [pc |-> "listClusters", status |-> "running", message |-> "",
   FOUND_CLUSTER_ARN |-> "", FOUND_SERVICE_ARN |-> "",
   CURRENT_BLUE_TD |-> "", NEW_TASK_DEF_ARN |-> "", CONTAINER_PORT |-> "",
   CD_APP |-> "", CD_DG |-> "", requests |-> <<>>]

\* log_error: the message and exit 1
LogError(s, message) ==
  [s EXCEPT !.pc = "exited", !.status = "exit 1", !.message = message]

----------------------------------------------------------------------------
(* State *)

VARIABLES
  env,         \* process.env restricted to the CDK_* variables
  file,        \* config/app-config.json
  pc,          \* "idle" before the call, then "returned" or "threw"
  context,     \* the argument of the call
  baseConfig,  \* the local baseConfig when the call ended
  result,      \* the ResolvedAppConfig returned, or NoResult
  error,       \* the error thrown, or NoError
  fileReads,   \* calls of fs.readFileSync made by the call
  envReads,    \* environment variables read by the call
  log,         \* console output of the call
  history,     \* the calls the process has made, each with how it ended
  calls,       \* how many calls the process has made
  cdkContext,  \* the CDK context of the app
  grafanaEnv,  \* process.env restricted to the GRAFANA_* variables
  agentRiver,  \* the file agent.river of the sidecar: "readable" or "missing"
  appPc,       \* the position of bin/app.ts
  stacks,      \* the stack createStack built for each name, or NoStack
  appError,    \* the error that ended bin/app.ts, or NoError
  aws,         \* what the AWS account answers to the trigger script
  script       \* the variables and the position of the trigger script

vars == <<env, file, pc, context, baseConfig, result, error, fileReads,
          envReads, log, history, calls, cdkContext, grafanaEnv,
          agentRiver, appPc, stacks, appError, aws, script>>

triggerVars == <<aws, script>>

callLog == <<history, calls>>

appVars == <<cdkContext, grafanaEnv, agentRiver, appPc, stacks, appError>>

outputs == <<context, baseConfig, result, error, fileReads, envReads, log>>

Init ==
  /\ env = EmptyEnv
  /\ file = AbsentFile
  /\ pc = "idle"
  /\ context = Undefined
  /\ baseConfig = EmptyObject
  /\ result = NoResult
  /\ error = NoError
  /\ fileReads = 0
  /\ envReads = {}
  /\ log = <<>>
  /\ history = {}
  /\ calls = 0
  /\ cdkContext = EmptyObject
  /\ grafanaEnv = NoGrafanaEnv
  /\ agentRiver = "readable"
  /\ appPc = "start"
  /\ stacks = NoStacks
  /\ appError = NoError
  /\ aws = NoAwsAccount
  /\ script = ScriptStart

\* process.env.<VAR> = value, before the app runs
SetEnv ==
  /\ pc = "idle"
  /\ \E f \in ScalarFields : \E s \in EnvValues(f) :
       env' = [env EXCEPT ![EnvVarOf[f]] = Str(s)]
  /\ UNCHANGED <<file, pc, outputs, callLog, appVars, triggerVars>>

\* delete process.env.<VAR>
DeleteEnv ==
  /\ pc = "idle"
  /\ \E v \in EnvVars : env[v] # Undefined /\ env' = [env EXCEPT ![v] = Undefined]
  /\ UNCHANGED <<file, pc, outputs, callLog, appVars, triggerVars>>

\* config/app-config.json is written, removed or made unreadable
WriteFile ==
  /\ pc = "idle"
  /\ \E f \in Files : f # file /\ file' = f
  /\ UNCHANGED <<env, pc, outputs, callLog, appVars, triggerVars>>

\* loadAppConfig(ctx), from entry to return or throw
LoadAppConfig ==
  /\ pc = "idle"
  /\ \E ctx \in Contexts :
       LET out == LoadAppConfigOutcome(ctx, file, env)
       IN  /\ context' = ContextAfter(ctx, file, env)
           /\ env' = EnvAfter(ctx, file, env)
           /\ pc' = out.status
           /\ baseConfig' = out.base
           /\ result' = out.value
           /\ error' = out.error
           /\ fileReads' = out.fileReads
           /\ envReads' = out.envReads
           /\ log' = out.log
  /\ UNCHANGED <<file, callLog, appVars, triggerVars>>

\* the process ends; the next run of the app starts with the same file and
\* environment
NextRun ==
  /\ pc # "idle"
  /\ pc' = "idle"
  /\ context' = Undefined
  /\ baseConfig' = EmptyObject
  /\ result' = NoResult
  /\ error' = NoError
  /\ fileReads' = 0
  /\ envReads' = {}
  /\ log' = <<>>
  /\ UNCHANGED <<env, file, callLog, appVars, triggerVars>>

Next == SetEnv \/ DeleteEnv \/ WriteFile \/ LoadAppConfig \/ NextRun

Spec == Init /\ [][Next]_vars

TypeOK ==
  /\ pc \in {"idle", "returned", "threw"}
  /\ file \in Files
  /\ context \in Contexts
  /\ fileReads \in {0, 1}
  /\ envReads \subseteq EnvVars
  /\ (pc = "returned") = (result # NoResult)
  /\ (pc = "threw") = (error # NoError)

----------------------------------------------------------------------------
(* A process that calls loadAppConfig several times *)

\* what a call was given and how it ended
CallRecord(ctx, out) ==
  [context |-> ctx, file |-> file, env |-> env,
   status |-> out.status, value |-> out.value, error |-> out.error]

\* CallAgain in which baseConfig is not reset to {} on entry: when the
\* context is not used and the file gives nothing, the call works on the
\* baseConfig the call before left
CallAgain_KeepsBaseConfig ==
  /\ calls < MaxCalls
  /\ \E ctx \in SeqContexts :
       LET kept == IF ~UsesContext(ctx) /\ file.kind # "json"
                   THEN Obj([myAppConfig |-> baseConfig]) ELSE ctx
           out == LoadAppConfigOutcome(kept, file, env)
       IN  /\ context' = ContextAfter(ctx, file, env)
           /\ env' = EnvAfter(ctx, file, env)
           /\ pc' = out.status
           /\ baseConfig' = out.base
           /\ result' = out.value
           /\ error' = out.error
           /\ fileReads' = out.fileReads
           /\ envReads' = out.envReads
           /\ log' = out.log
           /\ history' = history \cup {CallRecord(ctx, out)}
  /\ calls' = calls + 1
  /\ UNCHANGED <<file, appVars, triggerVars>>

\* loadAppConfig(ctx) once more in the same process: the variables still
\* hold what the call before left
CallAgain ==
  /\ calls < MaxCalls
  /\ \E ctx \in SeqContexts :
       LET out == LoadAppConfigOutcome(ctx, file, env)
       IN  /\ context' = ContextAfter(ctx, file, env)
           /\ env' = EnvAfter(ctx, file, env)
           /\ pc' = out.status
           /\ baseConfig' = out.base
           /\ result' = out.value
           /\ error' = out.error
           /\ fileReads' = out.fileReads
           /\ envReads' = out.envReads
           /\ log' = out.log
           /\ history' = history \cup {CallRecord(ctx, out)}
  /\ calls' = calls + 1
  /\ UNCHANGED <<file, appVars, triggerVars>>

\* process.env.CDK_DEFAULT_ACCOUNT = value, between two calls
SetAccountBetweenCalls ==
  /\ env["CDK_DEFAULT_ACCOUNT"] = Undefined
  /\ env' = [env EXCEPT !["CDK_DEFAULT_ACCOUNT"] = Str(EnvSentinel("account"))]
  /\ UNCHANGED <<file, pc, outputs, callLog, appVars, triggerVars>>

\* process.env = { ...originalEnv }, between two calls
ResetEnvBetweenCalls ==
  /\ env # EmptyEnv
  /\ env' = EmptyEnv
  /\ UNCHANGED <<file, pc, outputs, callLog, appVars, triggerVars>>

\* the file is written, removed or damaged between two calls
WriteFileBetweenCalls ==
  /\ \E f \in SeqFiles : f # file /\ file' = f
  /\ UNCHANGED <<env, pc, outputs, callLog, appVars, triggerVars>>

SeqNext ==
  \/ CallAgain
  \/ SetAccountBetweenCalls
  \/ ResetEnvBetweenCalls
  \/ WriteFileBetweenCalls

SeqSpec == Init /\ [][SeqNext]_vars

----------------------------------------------------------------------------
(* The app: bin/app.ts from its first statement to its last *)

AppInit ==
  /\ env \in AppEnvs
  /\ file \in AppFiles
  /\ cdkContext \in CdkContexts
  /\ grafanaEnv \in GrafanaEnvs
  /\ agentRiver \in {"readable", "missing"}
  /\ pc = "idle"
  /\ context = Undefined
  /\ baseConfig = EmptyObject
  /\ result = NoResult
  /\ error = NoError
  /\ fileReads = 0
  /\ envReads = {}
  /\ log = <<>>
  /\ history = {}
  /\ calls = 0
  /\ appPc = "start"
  /\ stacks = NoStacks
  /\ appError = NoError
  /\ aws = NoAwsAccount
  /\ script = ScriptStart

\* app.node.tryGetContext(key)
TryGetContext(ctx, key) == Get(ctx, key)

\* const resolvedAppConfig = loadAppConfig(app.node.tryGetContext('myAppConfig'))
AppLoadConfig ==
  /\ appPc = "start"
  /\ LET ctx == TryGetContext(cdkContext, "myAppConfig")
         out == LoadAppConfigOutcome(ctx, file, env)
     IN  /\ context' = ContextAfter(ctx, file, env)
         /\ env' = EnvAfter(ctx, file, env)
         /\ pc' = out.status
         /\ baseConfig' = out.base
         /\ result' = out.value
         /\ error' = out.error
         /\ fileReads' = out.fileReads
         /\ envReads' = out.envReads
         /\ log' = out.log
         /\ appPc' = IF out.status = "returned" THEN "loaded" ELSE "failed"
         /\ appError' = out.error
  /\ UNCHANGED <<file, callLog, cdkContext, grafanaEnv, agentRiver,
                 stacks, triggerVars>>

\* createStack('dev')
CreateStackDev ==
  /\ appPc = "loaded"
  /\ LET out == CreateStack("dev", result, grafanaEnv, agentRiver)
     IN  /\ stacks' = [stacks EXCEPT !["dev"] = out.value]
         /\ appPc' = IF out.threw THEN "failed" ELSE "devCreated"
         /\ appError' = out.error
  /\ UNCHANGED <<env, file, pc, outputs, callLog, cdkContext, grafanaEnv,
                 agentRiver, triggerVars>>

\* createStack('release') placed before createStack('dev')
CreateStackRelease_First ==
  /\ appPc = "loaded"
  /\ stacks["release"] = NoStack
  /\ LET out == CreateStack("release", result, grafanaEnv, agentRiver)
     IN  /\ stacks' = [stacks EXCEPT !["release"] = out.value]
         /\ appPc' = IF out.threw THEN "failed" ELSE "loaded"
         /\ appError' = out.error
  /\ UNCHANGED <<env, file, pc, outputs, callLog, cdkContext, grafanaEnv,
                 agentRiver, triggerVars>>

\* createStack('release')
CreateStackRelease ==
  /\ appPc = "devCreated"
  /\ LET out == CreateStack("release", result, grafanaEnv, agentRiver)
     IN  /\ stacks' = [stacks EXCEPT !["release"] = out.value]
         /\ appPc' = IF out.threw THEN "failed" ELSE "done"
         /\ appError' = out.error
  /\ UNCHANGED <<env, file, pc, outputs, callLog, cdkContext, grafanaEnv,
                 agentRiver, triggerVars>>

AppNext == AppLoadConfig \/ CreateStackDev \/ CreateStackRelease

AppSpec == AppInit /\ [][AppNext]_vars

----------------------------------------------------------------------------
(* The steps of trigger_blue_green.sh *)

TriggerInit ==
  /\ aws \in AwsAccounts
  /\ script = ScriptStart
  /\ env = EmptyEnv
  /\ file = AbsentFile
  /\ pc = "idle"
  /\ context = Undefined
  /\ baseConfig = EmptyObject
  /\ result = NoResult
  /\ error = NoError
  /\ fileReads = 0
  /\ envReads = {}
  /\ log = <<>>
  /\ history = {}
  /\ calls = 0
  /\ cdkContext = EmptyObject
  /\ grafanaEnv = NoGrafanaEnv
  /\ agentRiver = "readable"
  /\ appPc = "start"
  /\ stacks = NoStacks
  /\ appError = NoError

UnchangedByScript == <<env, file, pc, outputs, callLog, appVars, aws>>

\* aws ecs list-clusters | jq -r '.clusterArns[]'
ListClusters ==
  /\ script.pc = "listClusters"
  /\ script' = IF aws.clusters = <<>>
               THEN LogError(script, "No ECS clusters found.")
               ELSE [script EXCEPT !.pc = "findService"]
  /\ UNCHANGED UnchangedByScript

\* the loops over the clusters and their services
FindService ==
  /\ script.pc = "findService"
  /\ LET found == FindBlueService(aws.clusters)
     IN  script' = IF found.service = ""
                   THEN LogError(script, "No '*-blue-svc' service found")
                   ELSE [script EXCEPT !.pc = "describeServices",
                                       !.FOUND_CLUSTER_ARN = found.cluster,
                                       !.FOUND_SERVICE_ARN = found.service]
  /\ UNCHANGED UnchangedByScript

\* aws ecs describe-services --query 'services[0].taskDefinition' | tr -d '"'
DescribeServices ==
  /\ script.pc = "describeServices"
  /\ LET td == IF aws.serviceDescribed THEN "td-blue:1" ELSE "null"
     IN  script' = IF td = ""
                   THEN LogError(script, "Unable to get current (blue) TaskDefinition.")
                   ELSE [script EXCEPT !.pc = "listTaskDefinitions",
                                       !.CURRENT_BLUE_TD = td]
  /\ UNCHANGED UnchangedByScript

\* aws ecs list-task-definitions | jq -r '.taskDefinitionArns[0]'
ListTaskDefinitions ==
  /\ script.pc = "listTaskDefinitions"
  /\ LET td == JqFirst(aws.greenTaskDefinitions)
     IN  script' = IF td = ""
                   THEN LogError(script, "No ACTIVE task definitions found")
                   ELSE [script EXCEPT !.pc = "describeTaskDefinition",
                                       !.NEW_TASK_DEF_ARN = td]
  /\ UNCHANGED UnchangedByScript

\* aws ecs describe-task-definition | jq -r '...portMappings[0].containerPort'
\* the call fails and prints nothing for a name that denotes no definition
DescribeTaskDefinition ==
  /\ script.pc = "describeTaskDefinition"
  /\ LET exists == \E i \in 1..Len(aws.greenTaskDefinitions) :
                      aws.greenTaskDefinitions[i] = script.NEW_TASK_DEF_ARN
         port == IF exists THEN aws.containerPort ELSE ""
     IN  script' = IF port = ""
                   THEN LogError(script, "Unable to determine containerPort from task definition.")
                   ELSE [script EXCEPT !.pc = "listApplications",
                                       !.CONTAINER_PORT = port]
  /\ UNCHANGED UnchangedByScript

\* aws deploy list-applications | jq -r '.applications[0]'
ListApplications ==
  /\ script.pc = "listApplications"
  /\ LET app == JqFirst(aws.applications)
     IN  script' = IF app = ""
                   THEN LogError(script, "No CodeDeploy application found.")
                   ELSE [script EXCEPT !.pc = "listDeploymentGroups",
                                       !.CD_APP = app]
  /\ UNCHANGED UnchangedByScript

\* aws deploy list-deployment-groups | jq -r '.deploymentGroups[0]'
\* the call fails and prints nothing for a name that denotes no application
ListDeploymentGroups ==
  /\ script.pc = "listDeploymentGroups"
  /\ LET exists == \E i \in 1..Len(aws.applications) :
                      aws.applications[i] = script.CD_APP
         dg == IF exists THEN JqFirst(aws.deploymentGroups) ELSE ""
     IN  script' = IF dg = ""
                   THEN LogError(script, "No Deployment Group found under application")
                   ELSE [script EXCEPT !.pc = "createDeployment", !.CD_DG = dg]
  /\ UNCHANGED UnchangedByScript

\* the two jq -n calls, the temporary file, aws deploy create-deployment,
\* rm and log_success; the exit status of the aws call is not looked at
CreateDeployment ==
  /\ script.pc = "createDeployment"
  /\ script' =
       [script EXCEPT
          !.pc = "exited", !.status = "exit 0",
          !.message = "Deployment requested. Temporary file removed.",
          !.requests = Append(@, [application |-> script.CD_APP,
                                  deploymentGroup |-> script.CD_DG,
                                  taskDefinition |-> script.NEW_TASK_DEF_ARN,
                                  containerPort |-> script.CONTAINER_PORT])]
  /\ UNCHANGED UnchangedByScript

TriggerNext ==
  \/ ListClusters
  \/ FindService
  \/ DescribeServices
  \/ ListTaskDefinitions
  \/ DescribeTaskDefinition
  \/ ListApplications
  \/ ListDeploymentGroups
  \/ CreateDeployment

TriggerSpec == TriggerInit /\ [][TriggerNext]_vars

----------------------------------------------------------------------------
(* Vocabulary of the properties, stated on the inputs and outputs of a call *)

Called == pc # "idle"

\* the call was given no context override: no context at all, or a context
\* object without a myAppConfig entry
NoContext ==
  \/ context.t \in {"undefined", "null"}
  \/ context.t = "obj" /\ "myAppConfig" \notin DOMAIN context.o

\* the call was given a context override that is an object with entries
ContextPresent ==
  /\ context.t = "obj"
  /\ "myAppConfig" \in DOMAIN context.o
  /\ context.o["myAppConfig"].t = "obj"
  /\ DOMAIN context.o["myAppConfig"].o # {}

ContextConfig == context.o["myAppConfig"]

\* the bag sets field f: f is an entry of it with a value other than null
Sets(bag, f) == bag.t = "obj" /\ f \in DOMAIN bag.o /\ bag.o[f].t # "null"

EnvSet(f) == env[EnvVarOf[f]].t = "str"

\* the number a value of a numeric field denotes, for the numbers and the
\* numeric texts drawn here; NaN for every other value
NumberDenoted(v) ==
  CASE v.t = "num" -> v
    [] v = Str(<<"8", "0", "8", "0">>) -> Num(8080)
    [] v = Str(<<"1", "2">>) -> Num(12)
    [] v = Str(<<"9", "0">>) -> Num(90)
    [] OTHER -> NaN

IsNumeric(v) == NumberDenoted(v) # NaN

DefaultOf(f) ==
  CASE f = "hostedZoneId" -> Str(<<>>)
    [] f = "appPortNum" -> Num(3000)
    [] f = "terminationWaitTimeMinutes" -> Num(5)
    [] OTHER -> Undefined

\* the value the tiers give to field f, the base configuration first
TierValue(f) == IF Sets(baseConfig, f) THEN baseConfig.o[f]
                ELSE IF EnvSet(f) THEN env[EnvVarOf[f]]
                ELSE DefaultOf(f)

\* missing or empty: what the fail-fast checks reject
IsEmptyValue(v) == v.t \in {"undefined", "null", "false", "nan"}
                   \/ v = Str(<<>>) \/ v = Num(0)

----------------------------------------------------------------------------
(* C1 *)

C1_ContextSetsFive ==
  /\ ContextPresent
  /\ \A f \in StringFields : Sets(ContextConfig, f)

\* C1: when the call is given a context whose myAppConfig sets account,
\* region, serviceName, domainName and hostedZoneId, the config file is not
\* read, the returned config carries exactly the context's values for the
\* five fields, and the call returns whenever the four required ones are
\* not empty, whatever the file and the environment hold.
C1_ContextWins ==
  (Called /\ C1_ContextSetsFive) =>
     /\ fileReads = 0
     /\ pc = "returned" =>
          \A f \in StringFields : result[f] = ContextConfig.o[f]
     /\ (\A f \in RequiredSet : ~IsEmptyValue(ContextConfig.o[f]))
          => pc = "returned"

C1_Witness ==
  /\ pc = "returned"
  /\ C1_ContextSetsFive
  /\ file = File("json", DocOf("f", ScalarFields))
  /\ \A f \in StringFields : env[EnvVarOf[f]] = Str(EnvSentinel(f))
  /\ result.account = Str(<<"c", "a">>)

----------------------------------------------------------------------------
(* C2 *)

\* C2 as stated: with a context override present and not empty, every
\* scalar field the context does not set comes out as its hard-coded default
\* or as a missing-required-field error, never as the value of its
\* environment variable.
C2_EnvNeverConsulted ==
  (Called /\ ContextPresent) =>
     \A f \in ScalarFields :
        ~Sets(ContextConfig, f) =>
           IF f \in RequiredSet THEN pc = "threw"
           ELSE pc = "returned" => result[f] = DefaultOf(f)

\* C2 amended: with a context override present and not empty the config
\* file is not consulted (it is not read and the outcome is that of the same
\* call with no file), but the environment is: every scalar field the
\* context does not set comes out as the value of its environment variable
\* when that is set (for the two numeric fields: as the number a numeric
\* text denotes), as its default otherwise, and the call throws when a
\* required field is in neither.
C2_ContextSuppressesFileOnly ==
  (Called /\ ContextPresent) =>
     /\ fileReads = 0
     /\ LET o == LoadAppConfigOutcome(context, AbsentFile, env)
        IN  pc = o.status /\ result = o.value /\ error = o.error
     /\ \A f \in ScalarFields :
          ~Sets(ContextConfig, f) =>
             /\ (pc = "returned" /\ EnvSet(f) /\ f \in StringFields) =>
                   result[f] = env[EnvVarOf[f]]
             /\ (pc = "returned" /\ f \in NumericFields
                                  /\ IsNumeric(env[EnvVarOf[f]])) =>
                   result[f] = NumberDenoted(env[EnvVarOf[f]])
             /\ (pc = "returned" /\ ~EnvSet(f)) => result[f] = DefaultOf(f)
             /\ (f \in RequiredSet /\ ~EnvSet(f)) => pc = "threw"

C2_Witness ==
  /\ pc = "returned"
  /\ context = Obj([myAppConfig |-> DocOf("c", RequiredSet \ {"region"})])
  /\ file = File("json", DocOf("f", ScalarFields))
  /\ result.region = Str(<<"e", "r">>)
  /\ result.appPortNum = Num(8080)

----------------------------------------------------------------------------
(* C3 *)

\* the file sets field f, with a number if f is a numeric field
C3_FileSets(f) ==
  /\ Sets(file.doc, f)
  /\ f \in NumericFields => file.doc.o[f].t = "num"

\* C3: with no context override and a config file that parses to an object,
\* every scalar field the file sets is returned with the file's value,
\* whatever the environment variables hold.
C3_FileOverEnvironment ==
  (pc = "returned" /\ NoContext /\ file.kind = "json") =>
     \A f \in ScalarFields : C3_FileSets(f) => result[f] = file.doc.o[f]

C3_Witness ==
  /\ pc = "returned"
  /\ NoContext
  /\ file = File("json", DocOf("f", ScalarFields))
  /\ \A f \in ScalarFields : env[EnvVarOf[f]] = Str(EnvSentinel(f))
  /\ result.serviceName = Str(<<"f", "s">>)
  /\ result.terminationWaitTimeMinutes = Num(7)

----------------------------------------------------------------------------
(* C4 *)

\* C4: with no context override and no config file, the returned account,
\* region, serviceName, domainName and hostedZoneId are the values of their
\* environment variables, and terminationWaitTimeMinutes is the number that
\* CDK_TERMINATION_WAIT_TIME_MINUTES denotes: '12' gives 12.
C4_EnvironmentLastResort ==
  (pc = "returned" /\ NoContext /\ file.kind = "absent") =>
     /\ \A f \in RequiredSet : result[f] = env[EnvVarOf[f]]
     /\ EnvSet("hostedZoneId") => result.hostedZoneId = env["CDK_HOSTED_ZONE_ID"]
     /\ env["CDK_TERMINATION_WAIT_TIME_MINUTES"] = Str(<<"1", "2">>)
          => result.terminationWaitTimeMinutes = Num(12)

C4_Witness ==
  /\ pc = "returned"
  /\ NoContext
  /\ file.kind = "absent"
  /\ \A f \in StringFields : env[EnvVarOf[f]] = Str(EnvSentinel(f))
  /\ env["CDK_TERMINATION_WAIT_TIME_MINUTES"] = Str(<<"1", "2">>)
  /\ result.terminationWaitTimeMinutes = Num(12)

----------------------------------------------------------------------------
(* C5 *)

\* C5: precedence is per field: each scalar field of a returned config is
\* the base configuration's value if the base configuration sets the field,
\* otherwise the value of the field's own environment variable if that is
\* set, otherwise the field's default (numeric fields as the number the
\* chosen value denotes); so a file setting only some fields is completed
\* from the environment field by field.
C5_PerFieldPrecedence ==
  pc = "returned" =>
     \A f \in ScalarFields :
        IF f \in StringFields THEN result[f] = TierValue(f)
        ELSE IsNumeric(TierValue(f)) => result[f] = NumberDenoted(TierValue(f))

C5_Witness ==
  /\ pc = "returned"
  /\ NoContext
  /\ file = File("json", DocOf("f", RequiredSet \ {"region"}))
  /\ baseConfig = file.doc
  /\ result.account = Str(<<"f", "a">>)
  /\ result.region = Str(<<"e", "r">>)
  /\ result.hostedZoneId = Str(<<"e", "z">>)
  /\ result.appPortNum = Num(3000)

----------------------------------------------------------------------------
(* C6 *)

\* the value that the base configuration or else the environment gives to
\* a required field is missing or empty
C6_Missing(f) ==
  LET v == TierValue(f) IN v.t \in {"undefined", "null"} \/ v = Str(<<>>)

\* C6: every returned config has account, region, serviceName and
\* domainName present and not empty, and whenever one of the four is missing
\* or empty after the base configuration and the environment have been
\* tried, the call throws and returns nothing.
C6_NoPartialResult ==
  /\ pc = "returned" =>
       \A f \in RequiredSet :
          /\ result[f].t \notin {"undefined", "null"}
          /\ result[f] # Str(<<>>)
  /\ (Called /\ \E f \in RequiredSet : C6_Missing(f)) =>
       /\ pc = "threw"
       /\ error # NoError
       /\ result = NoResult

C6_Witness ==
  /\ pc = "threw"
  /\ baseConfig.t = "obj"
  /\ \A f \in RequiredSet \ {"domainName"} : ~C6_Missing(f)
  /\ C6_Missing("domainName")
  /\ result = NoResult

----------------------------------------------------------------------------
(* C7 *)

C7_VarOf == <<"CDK_DEFAULT_ACCOUNT", "CDK_DEFAULT_REGION",
              "CDK_SERVICE_NAME", "CDK_DOMAIN_NAME">>

C7_MissingAt(i) == IsEmptyValue(TierValue(RequiredFields[i]))

\* C7: a missing-required-field error names the first missing field in the
\* order account, region, serviceName, domainName, by the environment
\* variable that would supply it; it is raised whenever the base
\* configuration is an object and one of the four is missing; with no
\* context, no file and no variable set it is the error of
\* CDK_DEFAULT_ACCOUNT.
C7_FirstMissingNamed ==
  /\ (pc = "threw" /\ error.name = "Error") =>
       \E i \in 1..4 :
          /\ C7_MissingAt(i)
          /\ \A j \in 1..(i - 1) : ~C7_MissingAt(j)
          /\ error.var = C7_VarOf[i]
          /\ error.text = " is required (via context, config file, or env)"
  /\ (Called /\ baseConfig.t = "obj" /\ \E i \in 1..4 : C7_MissingAt(i)) =>
       (pc = "threw" /\ error.name = "Error")
  /\ (Called /\ NoContext /\ file.kind = "absent" /\ env = EmptyEnv) =>
       (pc = "threw" /\ error.name = "Error"
                     /\ error.var = "CDK_DEFAULT_ACCOUNT")

C7_Witness ==
  /\ pc = "threw"
  /\ ~C7_MissingAt(1)
  /\ C7_MissingAt(2)
  /\ ~C7_MissingAt(3)
  /\ C7_MissingAt(4)
  /\ error.var = "CDK_DEFAULT_REGION"

----------------------------------------------------------------------------
(* C8 *)

\* the configuration the call is given as base: the context override, else
\* what the file holds
C8_GivenBase ==
  IF ContextPresent THEN ContextConfig
  ELSE IF file.kind = "json" THEN file.doc
  ELSE EmptyObject

\* field f has a value that is not empty in the given base configuration
\* or, when that does not set f, in the environment
C8_Supplied(f) ==
  IF Sets(C8_GivenBase, f) THEN ~IsEmptyValue(C8_GivenBase.o[f])
  ELSE EnvSet(f) /\ env[EnvVarOf[f]] # Str(<<>>)

\* C8 as stated: the call fails only when a required scalar is in no tier:
\* when each of account, region, serviceName and domainName has a value that
\* is not empty in the base configuration or the environment, the call
\* returns, whatever the state of the file.
C8_FailsOnlyWhenRequiredMissing ==
  (Called /\ (ContextPresent \/ NoContext)
          /\ \A f \in RequiredSet : C8_Supplied(f)) => pc = "returned"

----------------------------------------------------------------------------
(* C9 *)

\* C9 as stated: whatever the context, the file and the environment, the
\* call returns a config or raises one of the four '<VAR> is required'
\* errors.
C9_OnlyRequiredErrors ==
  pc = "threw" =>
     /\ error.name = "Error"
     /\ error.var \in {"CDK_DEFAULT_ACCOUNT", "CDK_DEFAULT_REGION",
                       "CDK_SERVICE_NAME", "CDK_DOMAIN_NAME"}

----------------------------------------------------------------------------
(* C10 *)

\* C10: a file that exists but does not parse is treated as an absent file:
\* the base configuration stays empty, the failure of the parse does not
\* leave the call, and the config returned or the error raised is the one
\* the same call gives with the same environment and no file.
C10_MalformedAsAbsent ==
  (Called /\ file.kind = "malformed") =>
     /\ error.name \in {"none", "Error"}
     /\ NoContext => baseConfig = EmptyObject
     /\ LET o == LoadAppConfigOutcome(context, AbsentFile, env)
        IN  pc = o.status /\ result = o.value /\ error = o.error

C10_Witness ==
  /\ pc = "returned"
  /\ NoContext
  /\ file.kind = "malformed"
  /\ fileReads = 1
  /\ log = <<"error: Error reading">>
  /\ result.account = Str(<<"e", "a">>)

----------------------------------------------------------------------------
(* C11 *)

OptionalScalars == {"hostedZoneId", "appPortNum", "terminationWaitTimeMinutes"}

\* the entry stored under key k of the base configuration sets field f
EntrySets(k, f) ==
  /\ baseConfig.t \in {"obj", "arr"}
  /\ k \in DOMAIN baseConfig.o
  /\ baseConfig.o[k].t = "obj"
  /\ f \in DOMAIN baseConfig.o[k].o

\* C11: when neither the base configuration nor the environment supplies
\* appPortNum, terminationWaitTimeMinutes or hostedZoneId, the returned
\* config has appPortNum 3000, terminationWaitTimeMinutes 5 and hostedZoneId
\* ''; a field without a declared default, such as the imageTag of an
\* environment entry, stays absent when the entry does not set it.
C11_Defaults ==
  pc = "returned" =>
     /\ (\A f \in OptionalScalars : ~Sets(baseConfig, f) /\ ~EnvSet(f)) =>
          /\ result.appPortNum = Num(3000)
          /\ result.terminationWaitTimeMinutes = Num(5)
          /\ result.hostedZoneId = Str(<<>>)
     /\ \A k \in DOMAIN result.envConfigs : \A f \in EnvConfigFields :
          ~EntrySets(k, f) => result.envConfigs[k][f] = Undefined

C11_Witness ==
  /\ pc = "returned"
  /\ baseConfig = With(DocOf("f", RequiredSet),
                       [dev |-> Null, release |-> Str(<<"x">>),
                        k8s |-> EmptyObject])
  /\ env = EmptyEnv
  /\ result.appPortNum = Num(3000)
  /\ result.terminationWaitTimeMinutes = Num(5)
  /\ result.hostedZoneId = Str(<<>>)
  /\ result.envConfigs["k8s"]["imageTag"] = Undefined

----------------------------------------------------------------------------
(* C12 *)

C12_ReservedNames ==
  {"account", "region", "serviceName", "domainName", "hostedZoneId",
   "appPortNum", "terminationWaitTimeMinutes", "wantGrafana"}

\* C12: the keys of the returned envConfigs are exactly the top-level keys
\* of the base configuration that are not reserved names: no reserved name
\* is a key, every other key is, and an empty base configuration gives an
\* empty map.
C12_EnvConfigKeys ==
  (pc = "returned" /\ baseConfig.t \in {"obj", "arr"}) =>
     /\ DOMAIN result.envConfigs = DOMAIN baseConfig.o \ C12_ReservedNames
     /\ baseConfig = EmptyObject => DOMAIN result.envConfigs = {}

C12_Witness ==
  /\ pc = "returned"
  /\ baseConfig = With(DocOf("f", ScalarFields),
                       [wantGrafana |-> JsTrue, dev |-> DevEntry,
                        release |-> ReleaseEntry])
  /\ DOMAIN result.envConfigs = {"dev", "release"}

----------------------------------------------------------------------------
(* C13 *)

\* C13: whatever is stored under an environment key (a full, partial or
\* empty bag, null, or a scalar), the extractor gives an EnvConfig in which
\* each of the ten fields is the entry's value when the entry sets it and is
\* absent otherwise, and the shape of the entries never makes the call
\* throw: with an object as base configuration and the four required fields
\* supplied the call returns.
C13_ExtractorVerbatim ==
  /\ pc = "returned" =>
       \A k \in DOMAIN result.envConfigs :
          /\ DOMAIN result.envConfigs[k] = EnvConfigFields
          /\ \A f \in EnvConfigFields :
               result.envConfigs[k][f] =
                  IF EntrySets(k, f) THEN baseConfig.o[k].o[f] ELSE Undefined
  /\ (Called /\ baseConfig.t = "obj"
             /\ \A f \in RequiredSet : ~IsEmptyValue(TierValue(f)))
       => pc = "returned"

C13_Witness ==
  /\ pc = "returned"
  /\ "dev" \in DOMAIN baseConfig.o /\ baseConfig.o["dev"] = DevEntry
  /\ result.envConfigs["dev"]["imageTag"] = Str(<<"v", "1">>)
  /\ result.envConfigs["dev"]["computePlatform"] = Str(<<"e", "c", "s">>)
  /\ result.envConfigs["dev"]["s3BucketName"] = Undefined

----------------------------------------------------------------------------
(* C14 *)

\* C14 as stated: a context override that is present but empty is treated
\* as absent: the call gives what the same call gives with no context, the
\* file being loaded and the environment used as fallback.
C14_EmptyOverrideAsAbsent ==
  (Called /\ context \in {EmptyObject, Obj([myAppConfig |-> EmptyObject])}) =>
     LET o == LoadAppConfigOutcome(Undefined, file, env)
     IN  pc = o.status /\ result = o.value /\ error = o.error

----------------------------------------------------------------------------
(* C16 *)

\* C16 as stated: every returned config has an integer appPortNum and an
\* integer terminationWaitTimeMinutes, whatever text the two environment
\* variables hold and whatever the base configuration holds.
C16_IntegerNumbers ==
  pc = "returned" =>
     /\ result.appPortNum.t = "num"
     /\ result.terminationWaitTimeMinutes.t = "num"

----------------------------------------------------------------------------
(* C17 *)

----------------------------------------------------------------------------
(* Claim vocabulary for the stacks *)

\* the stacks createStack has built
Built == {n \in StackNames : stacks[n].kind = "AppStack"}

\* the built stacks that have Fargate services
WithFargate == {n \in Built : stacks[n].fargate.kind # "none"}

IsText(v, chars) == v.t = "str" /\ v.s = chars

InRelease(n) ==
  IsText(stacks[n].fargate.stagingEnvironment,
         <<"r", "e", "l", "e", "a", "s", "e">>)

InDev(n) == IsText(stacks[n].fargate.stagingEnvironment, <<"d", "e", "v">>)

\* the value the entry of the base configuration for stack n gives to f
EntryValue(n, f) == IF EntrySets(n, f) THEN baseConfig.o[n].o[f] ELSE Undefined

----------------------------------------------------------------------------
(* C15 *)

\* C15 as stated: when the base configuration sets wantGrafana to true the
\* resolved config has wantGrafana = true and every stack with Fargate
\* services has the Grafana Alloy sidecar in its blue task; when the base
\* configuration sets it to false or does not set it, no stack has the
\* sidecar.
C15_FlagFollowsConfiguration ==
  LET flag == Get(baseConfig, "wantGrafana")
  IN  /\ (pc = "returned" /\ flag = JsTrue) => result.wantGrafana = JsTrue
      /\ \A n \in WithFargate :
           /\ flag = JsTrue =>
                "BlueAlloySidecar" \in stacks[n].fargate.constructs
           /\ flag \in {JsFalse, Undefined} =>
                "BlueAlloySidecar" \notin stacks[n].fargate.constructs

----------------------------------------------------------------------------
(* C18 *)

C18_GreenParts == {"GreenService", "GreenTargetGroup", "DeploymentGroup"}

\* C18: in every stack with Fargate services, the green service, the green
\* target group and the CodeDeploy deployment group exist, and the blue
\* service has the CODE_DEPLOY controller, if and only if stagingEnvironment
\* is 'release'; for 'dev' the blue service is the only service, it has the
\* ECS controller and the listener forwards to the blue target group alone;
\* for 'release' the listener forwards with weight 100 to the blue target
\* group and weight 0 to the green one.
C18_BlueGreenOnlyInRelease ==
  \A n \in WithFargate :
     LET f == stacks[n].fargate
     IN  /\ "BlueService" \in f.constructs
         /\ \A c \in C18_GreenParts : (c \in f.constructs) <=> InRelease(n)
         /\ (f.deploymentController["BlueService"] = "CODE_DEPLOY")
               <=> InRelease(n)
         /\ InDev(n) =>
              /\ DOMAIN f.deploymentController = {"BlueService"}
              /\ f.deploymentController["BlueService"] = "ECS"
              /\ f.defaultActions.TargetGroupArn = "BlueTargetGroup"
              /\ f.defaultActions.ForwardConfig = <<>>
         /\ InRelease(n) =>
              /\ f.deploymentController["GreenService"] = "CODE_DEPLOY"
              /\ f.defaultActions.ForwardConfig =
                   <<[TargetGroupArn |-> "BlueTargetGroup", Weight |-> 100],
                     [TargetGroupArn |-> "GreenTargetGroup", Weight |-> 0]>>

C18_Witness ==
  /\ appPc = "done"
  /\ WithFargate = {"dev", "release"}
  /\ InDev("dev") /\ InRelease("release")
  /\ "GreenService" \in stacks["release"].fargate.constructs
  /\ "GreenService" \notin stacks["dev"].fargate.constructs

----------------------------------------------------------------------------
(* C19 *)

C19_Scaling(min, max) ==
  [minCapacity |-> min, maxCapacity |-> max, targetUtilizationPercent |-> 70]

\* C19 as stated: the blue service scales between 1 and 2 tasks in dev and
\* between 1 and 10 tasks in release, and in release the green service has
\* auto-scaling of its own between 0 and 10 tasks, each at 70% CPU.
C19_ScalingBounds ==
  \A n \in WithFargate :
     LET scaling == stacks[n].fargate.autoScaling
     IN  /\ InDev(n) => scaling["BlueService"] = C19_Scaling(1, 2)
         /\ InRelease(n) =>
              /\ scaling["BlueService"] = C19_Scaling(1, 10)
              /\ "GreenService" \in DOMAIN scaling
              /\ scaling["GreenService"] = C19_Scaling(0, 10)

----------------------------------------------------------------------------
(* C20 *)

C20_BucketNamed(n) == Truthy(EntryValue(n, "s3BucketName"))

\* C20 as stated: for every stack createStack built, when the entry sets
\* s3BucketName and bucketIsCdkManaged = false the stack imports the bucket;
\* when it sets s3BucketName and the flag is absent or true the stack
\* creates the bucket; when it sets no bucket name the stack has no bucket,
\* no S3BucketName output and no S3_DATA_BUCKET container variable.
C20_BucketOwnership ==
  \A n \in Built :
     LET flag == EntryValue(n, "bucketIsCdkManaged")
         st == stacks[n]
     IN  /\ (C20_BucketNamed(n) /\ flag = JsFalse) =>
              st.dataBucket.kind = "imported"
         /\ (C20_BucketNamed(n) /\ flag \in {Undefined, JsTrue}) =>
              st.dataBucket.kind = "created"
         /\ ~C20_BucketNamed(n) =>
              /\ st.dataBucket.kind = "none"
              /\ "S3BucketName" \notin st.outputs
              /\ "S3_DATA_BUCKET" \notin DOMAIN st.containerEnvironment

----------------------------------------------------------------------------
(* C21 *)

\* one of the three GRAFANA_* variables is unset or empty
C21_VariableMissing ==
  \E v \in GrafanaVars : ~(grafanaEnv[v].t = "str" /\ grafanaEnv[v].s # <<>>)

\* createStack(n) reaches the Fargate services with wantGrafana true
C21_AsksForGrafana(n) ==
  /\ pc = "returned"
  /\ n \in DOMAIN result.envConfigs
  /\ IsText(result.envConfigs[n].computePlatform, <<"e", "c", "s">>)
  /\ \/ IsText(result.envConfigs[n].imageSource, <<"e", "c", "r">>)
     \/ IsText(result.envConfigs[n].imageSource,
               <<"d", "o", "c", "k", "e", "r", "h", "u", "b">>)
  /\ result.wantGrafana = JsTrue

\* C21: when createStack hands wantGrafana = true to the Fargate services
\* and one of GRAFANA_REMOTE_WRITE_URL, GRAFANA_USERNAME, GRAFANA_API_KEY is
\* unset or empty, the construction throws the Grafana error and the stack,
\* with its services and sidecar, does not exist; a stack with Fargate
\* services and wantGrafana = true exists only with all three set; the
\* Grafana error is thrown in no other case, and with wantGrafana false or
\* absent the construct throws for no value of the three variables.
C21_GrafanaVariablesRequired ==
  /\ (appPc \notin {"start", "loaded"} /\ C21_AsksForGrafana("dev")
        /\ C21_VariableMissing)
       => (appPc = "failed" /\ appError = GrafanaError /\ stacks = NoStacks)
  /\ (appPc \in {"done", "failed"} /\ "dev" \in Built
        /\ C21_AsksForGrafana("release") /\ C21_VariableMissing)
       => (appPc = "failed" /\ appError = GrafanaError
             /\ stacks["release"] = NoStack)
  /\ \A n \in WithFargate :
       "BlueAlloySidecar" \in stacks[n].fargate.constructs
          => ~C21_VariableMissing
  /\ appError = GrafanaError
       => (result.wantGrafana = JsTrue /\ C21_VariableMissing)
  /\ \A n \in WithFargate : \A w \in {Undefined, JsFalse} :
       \A g \in GrafanaEnvs :
          ~FargateServiceConstruct(
              [stacks[n].props EXCEPT !.wantGrafana = w], g, agentRiver).threw

\* the app failed on the Grafana error with the URL and the user name set
\* and the API key empty
C21_Witness ==
  /\ appPc = "failed"
  /\ appError = GrafanaError
  /\ grafanaEnv["GRAFANA_REMOTE_WRITE_URL"] = Str(<<"g">>)
  /\ grafanaEnv["GRAFANA_API_KEY"] = Str(<<>>)
  /\ stacks = NoStacks

----------------------------------------------------------------------------
(* C22 *)

\* the error createStack(n) throws for a name without entry
C22_NoConfigurationFor(n) ==
  /\ appError.name = "Error"
  /\ appError.text = "No configuration found for name"
  /\ appError.var = n

\* C22: the app builds the dev stack first and the release stack after it,
\* named '<serviceName>-dev' and '<serviceName>-release', and has both when
\* it ends normally; when the resolved envConfigs has no entry 'dev' (as
\* when the configuration comes from the environment alone) the app fails
\* with "No configuration found for name 'dev'" and no stack exists; when
\* only 'release' has no entry the app fails with the error for 'release'
\* after the dev stack was built.
C22_StacksInOrder ==
  /\ "release" \in Built => "dev" \in Built
  /\ appPc = "done" <=> Built = {"dev", "release"}
  /\ appPc = "devCreated" => Built = {"dev"}
  /\ \A n \in Built : stacks[n].id = result.serviceName.s \o <<"-", n>>
  /\ (pc = "returned" /\ appPc # "loaded"
        /\ "dev" \notin DOMAIN result.envConfigs)
       => (appPc = "failed" /\ C22_NoConfigurationFor("dev")
             /\ stacks = NoStacks)
  /\ (appPc \in {"done", "failed"} /\ "dev" \in Built
        /\ "release" \notin DOMAIN result.envConfigs)
       => (appPc = "failed" /\ C22_NoConfigurationFor("release")
             /\ Built = {"dev"})
  /\ (appPc = "failed" /\ appError.text = "No configuration found for name")
       => appError.var \notin DOMAIN result.envConfigs

\* the configuration came from the environment alone and the app failed at
\* 'dev'
C22_WitnessDev ==
  /\ file = AbsentFile /\ env = FullEnv /\ baseConfig = EmptyObject
  /\ appPc = "failed" /\ C22_NoConfigurationFor("dev") /\ stacks = NoStacks

\* the configuration lacks only 'release' and the app failed after the dev
\* stack was built
C22_Witness ==
  /\ appPc = "failed" /\ C22_NoConfigurationFor("release")
  /\ Built = {"dev"}
  /\ stacks["dev"].id = <<"f", "s", "-", "dev">>

----------------------------------------------------------------------------
(* C23 *)

\* the decimal text of the port numbers the configurations give
C23_PortText(v) ==
  CASE v = Num(3000) -> <<"3", "0", "0", "0">>
    [] v = Num(8081) -> <<"8", "0", "8", "1">>
    [] v = Num(8080) -> <<"8", "0", "8", "0">>
    [] v = Num(4000) -> <<"4", "0", "0", "0">>
    [] OTHER -> <<"?">>

\* the wget probe of http://localhost:<port><path>
C23_Probe(port, path) ==
  <<"wget --quiet --tries=1 --spider", " ", "http://localhost:">>
    \o C23_PortText(port) \o path \o <<" || exit 1">>

\* C23: for every built stack, the health checks follow the entry: the
\* target-group path is the healthCheckPath of the entry when it has one and
\* '/api/hello' otherwise; the container command is the healthCheckCommand
\* of the entry when it has one and otherwise CMD-SHELL followed by the wget
\* probe of http://localhost:<appPortNum><path> with that same path; the
\* container start period is 300 s when imageSource is 'ecr' and 60 s
\* otherwise.
C23_HealthChecks ==
  \A n \in Built :
     LET hc == stacks[n].props.healthChecks
         pathGiven == EntrySets(n, "healthCheckPath")
         commandGiven == EntrySets(n, "healthCheckCommand")
         path == IF pathGiven THEN EntryValue(n, "healthCheckPath").s
                 ELSE <<"/api/hello">>
     IN  /\ hc.targetGroupHealthCheckPath = Str(path)
         /\ commandGiven =>
              hc.containerHealthCheckCommand = EntryValue(n, "healthCheckCommand")
         /\ ~commandGiven =>
              /\ hc.containerHealthCheckCommand.t = "arr"
              /\ DOMAIN hc.containerHealthCheckCommand.o = {"0", "1"}
              /\ hc.containerHealthCheckCommand.o["0"] = Str(<<"CMD-SHELL">>)
              /\ hc.containerHealthCheckCommand.o["1"] =
                   Str(C23_Probe(result.appPortNum, path))
         /\ hc.containerHealthCheckStartPeriod =
              IF IsText(EntryValue(n, "imageSource"), <<"e", "c", "r">>)
              THEN 300 ELSE 60

\* a stack whose entry overrides the path alone, and one whose entry
\* overrides the command alone and takes its image from ecr
C23_Witness ==
  /\ Built = {"dev", "release"}
  /\ EntrySets("dev", "healthCheckPath")
  /\ ~EntrySets("dev", "healthCheckCommand")
  /\ stacks["dev"].props.healthChecks.containerHealthCheckCommand.o["1"] =
       Str(<<"wget --quiet --tries=1 --spider", " ", "http://localhost:",
             "8", "0", "8", "1", "/", "u", "p", " || exit 1">>)
  /\ stacks["dev"].props.healthChecks.containerHealthCheckStartPeriod = 60
  /\ EntrySets("release", "healthCheckCommand")
  /\ ~EntrySets("release", "healthCheckPath")
  /\ stacks["release"].props.healthChecks.targetGroupHealthCheckPath =
       Str(<<"/api/hello">>)
  /\ stacks["release"].props.healthChecks.containerHealthCheckStartPeriod = 300

----------------------------------------------------------------------------
(* C24 *)

\* C24 as stated: a stack built from an entry that does not set imageTag
\* has the image tag 'latest', and a stack built from an entry that sets
\* imageTag has that value as its tag.
C24_TagDefaultsToLatest ==
  \A n \in Built :
     stacks[n].props.tag =
        IF EntrySets(n, "imageTag") THEN EntryValue(n, "imageTag")
        ELSE Str(<<"l", "a", "t", "e", "s", "t">>)

----------------------------------------------------------------------------
(* C25 *)

\* the value the CDK context holds under the key 'myAppConfig'
C25_Supplied ==
  IF cdkContext.t = "obj" /\ "myAppConfig" \in DOMAIN cdkContext.o
  THEN cdkContext.o["myAppConfig"] ELSE Undefined

\* C25 as stated: when the CDK context holds under 'myAppConfig' a value
\* that sets the four required fields, the call made by bin/app.ts uses
\* that value as the base configuration and does not read the file.
C25_CdkContextRecognised ==
  (appPc # "start" /\ \A f \in RequiredSet : Sets(C25_Supplied, f))
     => (baseConfig = C25_Supplied /\ fileReads = 0)


----------------------------------------------------------------------------
\* what each lookup of the trigger script has to find in the account
C26_BlueServiceExists ==
  \E i \in 1..Len(aws.clusters) :
    /\ MatchesRelease(aws.clusters[i].arn)
    /\ \E j \in 1..Len(aws.clusters[i].services) :
         MatchesBlueSvc(aws.clusters[i].services[j])

C26_EveryLookupFinds ==
  /\ C26_BlueServiceExists
  /\ aws.serviceDescribed
  /\ aws.greenTaskDefinitions # <<>>
  /\ aws.containerPort # "null"
  /\ aws.applications # <<>>
  /\ aws.deploymentGroups # <<>>

\* C26: the trigger script requests a deployment only when every lookup
\* (blue service of a release cluster, its task definition, the latest
\* green task definition, its container port, a CodeDeploy application, a
\* deployment group) found a value; when some lookup finds nothing, an
\* empty result list included, the script ends with an error and has
\* requested no deployment.
C26_DeploymentOnlyAfterEveryLookup ==
  /\ script.requests # <<>> => C26_EveryLookupFinds
  /\ (script.pc = "exited" /\ ~C26_EveryLookupFinds) =>
       (script.status = "exit 1" /\ script.requests = <<>>)

----------------------------------------------------------------------------
\* a call of loadAppConfig has just ended: the log of calls grew by one
C27_CallEnded == calls' = calls + 1

\* the record of the call that has just ended, were its inputs afterwards
\* what they were when it was made
C27_RecordOfInputsAfter ==
  [context |-> context', file |-> file', env |-> env',
   status |-> pc', value |-> result', error |-> error']

----------------------------------------------------------------------------
\* the entry of name n asks for the platform 'ecs'
C28_PlatformIsEcs(n) ==
  IsText(result.envConfigs[n].computePlatform, <<"e", "c", "s">>)

C28_PlatformIsKubernetes(n) ==
  IsText(result.envConfigs[n].computePlatform,
         <<"k", "u", "b", "e", "r", "n", "e", "t", "e", "s">>)

\* the image source of the entry of name n is one the provisioner accepts
C28_ImageSourceAccepted(n) ==
  \/ IsText(result.envConfigs[n].imageSource, <<"e", "c", "r">>)
  \/ IsText(result.envConfigs[n].imageSource,
            <<"d", "o", "c", "k", "e", "r", "h", "u", "b">>)

\* load balancer, cluster, Fargate services, DNS alias record
C28_EcsResources ==
  {"ApplicationLoadBalancerSetup", "ApplicationEcsCluster",
   "ApplicationFargateServices", "ServiceDnsAliasRecords"}

\* Web ACL, VPC, storage, IAM role, image, certificate
C28_PlatformIndependentResources ==
  {"ApplicationWebAcl", "NetworkInfrastructure", "ApplicationStorage",
   "ApplicationIamRoles", "AppContainerImage", "SslCertificateResource"}

C28_EcsOutputs == {"AlbDnsName", "ServiceUrl"}

\* createStack(n) was called for an entry whose platform is not 'ecs' and
\* whose image source is accepted
C28_OtherPlatformAsked(n) ==
  /\ pc = "returned"
  /\ n \in DOMAIN result.envConfigs
  /\ ~C28_PlatformIsEcs(n)
  /\ C28_ImageSourceAccepted(n)
  /\ IF n = "dev" THEN appPc \notin {"start", "loaded"}
     ELSE appPc \in {"done", "failed"} /\ "dev" \in Built

=============================================================================
